---------------------------- MODULE Spec2Model ----------------------------
(***************************************************************************)
(* A model of dendron's command layer and core:                            *)
(*   - the per-tab query lifecycle (src-tauri/src/state.rs) driven by the  *)
(*     execute_query / cancel_query commands and the shared locks          *)
(*     (src-tauri/src/commands/*.rs)                 -- specification Spec *)
(*   - trust-on-first-use host keys (dendron-core/src/db/ssh.rs)           *)
(*                                                -- specification SpecHosts *)
(*   - the statement classifier (dendron-core/src/query.rs) and the        *)
(*     SELECT wrapping of execute_query             -- specification SpecSql *)
(*   - row streaming with the row cap (src-tauri/src/db/postgres.rs)       *)
(*                                                -- specification SpecExec *)
(***************************************************************************)
EXTENDS Integers, Sequences, FiniteSets, TLC

VARIABLES
    \* ---- Spec: AppState and the running commands
    tabs,        \* AppState.tabs: tab_id -> TabContext (a function on the tabs that exist)
    connections, \* AppState.connections: the names of the open connections
    tabsLock,    \* holder of the tabs Mutex (Unlocked or a process)
    connsLock,   \* holder of the connections Mutex
    configLock,  \* holder of the config Mutex
    nextToken,   \* identity of the next CancellationToken::new()
    cancelled,   \* the tokens on which cancel() has been called
    issued,      \* every query_id start_query has returned
    pc,          \* per process: position inside its command
    loc,         \* per process: the command's local variables
    \* ---- SpecHosts
    known_hosts, \* the known_hosts file: a sequence of lines (each a sequence of characters)
    chk,         \* per checker thread: position and locals of check_known_hosts
    \* ---- SpecSql
    sql,         \* the batch handed to the classifier / execute_query
    sqlOut,      \* what the classifier and execute_query computed for it
    \* ---- SpecExec
    ex,          \* DatabaseConnection::execute_query: stream, collected rows, result
    \* ---- SpecTunnel
    tun,         \* one SshTunnel: establish, the accept loop, the forwarded streams
    \* ---- SpecUpdate
    upd,         \* update_cell: its arguments, the statement built, the outcome
    \* ---- SpecLife
    life,        \* who owns the pool and the tunnel of one connection
    \* ---- SpecSecret
    sec,         \* the key file, the encrypt / decrypt calls, the password handed to connect
    \* ---- SpecEdit
    edit,        \* extract_source_table: the statement and the EditableInfo returned
    \* ---- SpecCell
    cell,        \* decoding of one cell: the value, the attempts, the string
    \* ---- SpecEnv
    env,         \* resolve_env: the string being resolved and the loop's position
    \* ---- SpecLocks
    lk           \* per task: the command it runs and its position among the lock steps

vars == << tabs, connections, tabsLock, connsLock, configLock, nextToken, cancelled,
           issued, pc, loc, known_hosts, chk, sql, sqlOut, ex, tun, upd, life,
    sec, edit, cell, env, lk >>

-----------------------------------------------------------------------------
(* Bounds of the model *)

MaxQueryId == 3      \* cap on a tab's generation counter (start_query, swap_connection)

QProcs == {1, 2}     \* tasks running execute_query
AuxProcs == {3}      \* task running the other commands
Procs == QProcs \cup AuxProcs
TabIds == {1}
Names == {"prod"}                 \* saved connections
DangerousNames == {"prod"}        \* those tagged prod / production / sensitive

-----------------------------------------------------------------------------
(* TabContext: src-tauri/src/state.rs *)

NoToken == 0          \* cancel_token: None
NoConn == "none"      \* connection_name: None
Unlocked == 0         \* a Mutex nobody holds

\* TabContext::new / Default: empty cancel slot, generation 0, no connection.
TabContext_new ==
    [ connection      |-> NoConn,
      connection_name |-> NoConn,
      is_dangerous    |-> FALSE,
      cancel_token    |-> NoToken,
      query_id        |-> 0 ]

\* start_query with a token counter that is not advanced: the handle is not fresh.
start_query_same_generation(ctx, token) ==
    [ ctx      |-> [ctx EXCEPT !.cancel_token = token],
      token    |-> token,
      query_id |-> ctx.query_id ]

\* start_query(&mut self) -> (token, query_id); `token` is the CancellationToken::new().
start_query(ctx, token) ==
    [ ctx      |-> [ctx EXCEPT !.query_id = @ + 1, !.cancel_token = token],
      token    |-> token,
      query_id |-> ctx.query_id + 1 ]

\* finish_query without the generation test.
finish_query_unconditional(ctx, query_id) ==
    [ctx EXCEPT !.cancel_token = NoToken]

\* finish_query(&mut self, query_id)
finish_query(ctx, query_id) ==
    IF ctx.query_id = query_id
    THEN [ctx EXCEPT !.cancel_token = NoToken]
    ELSE ctx

\* cancel_current_query that cancels the handle and leaves it in the slot.
cancel_current_query_no_take(ctx) ==
    [ ctx       |-> ctx,
      cancelled |-> IF ctx.cancel_token # NoToken THEN {ctx.cancel_token} ELSE {} ]

\* cancel_current_query(&mut self): take() the slot and cancel what was in it.
\* Returns the new context and the set of tokens cancel() was called on.
cancel_current_query(ctx) ==
    [ ctx       |-> [ctx EXCEPT !.cancel_token = NoToken],
      cancelled |-> IF ctx.cancel_token # NoToken THEN {ctx.cancel_token} ELSE {} ]

\* swap_connection that leaves the old handle in the slot, uncancelled.
swap_connection_no_cancel(ctx, new_conn, connection_name, is_dangerous) ==
    [ ctx       |-> [ctx EXCEPT !.query_id = @ + 1,
                                !.connection = new_conn,
                                !.connection_name = connection_name,
                                !.is_dangerous = is_dangerous],
      cancelled |-> {} ]

\* swap_connection(&mut self, new_conn, connection_name, is_dangerous)
swap_connection(ctx, new_conn, connection_name, is_dangerous) ==
    LET c == cancel_current_query(ctx) IN
    [ ctx       |-> [c.ctx EXCEPT !.query_id = @ + 1,
                                  !.connection = new_conn,
                                  !.connection_name = connection_name,
                                  !.is_dangerous = is_dangerous],
      cancelled |-> c.cancelled ]

-----------------------------------------------------------------------------
(* Locks and futures *)

\* A MutexGuard that outlives its block (bound outside the braces).
drop_guard_leaked(holder) == holder

\* End of the block that took `state.<map>.lock().await`: the guard is dropped,
\* also when the block is left early through `?`.
drop_guard(holder) == Unlocked

\* tokio::select! over conn.execute_query(..) and token.cancelled(): the results it
\* can return when polled.  It returns the branch that is ready; when both are
\* ready at the poll it picks the branch to check first at random.
select(backend, token_cancelled) ==
    (IF backend = "rows" THEN {"Ok"} ELSE IF backend = "error" THEN {"backend error"} ELSE {})
    \cup (IF token_cancelled THEN {"Query was cancelled"} ELSE {})

-----------------------------------------------------------------------------
(* The commands.  A process runs one command at a time; loc holds its locals. *)

\* The variables of the other specifications
others == << known_hosts, chk, sql, sqlOut, ex, tun, upd, life,
    sec, edit, cell, env, lk >>

IdleLoc ==
    [ cmd      |-> "none",
      tab      |-> 0,
      name     |-> NoConn,      \* the connection name the command works on
      token    |-> NoToken,     \* execute_query: the token start_query returned
      query_id |-> 0,           \* execute_query: the generation start_query returned
      backend  |-> "none",      \* the awaited backend call: none / pending / rows / error
      cancelled_waiting |-> FALSE, \* cancel_query took this query's token while its backend call was pending
      result   |-> "none" ]

\* The command returns r to the frontend.  Of its locals only the generation it was
\* given and whether it was cancelled while waiting are kept (the record of what the
\* finished command was).
Done(p, l, r) ==
    /\ pc' = [pc EXCEPT ![p] = "done"]
    /\ loc' = [loc EXCEPT ![p] = [IdleLoc EXCEPT !.cmd = l.cmd, !.query_id = l.query_id,
                                                 !.cancelled_waiting = l.cancelled_waiting,
                                                 !.result = r]]

\* tabs.entry(tab_id).or_default()
entry_or_default(t) ==
    IF t \in DOMAIN tabs THEN tabs ELSE [x \in DOMAIN tabs \cup {t} |->
                                          IF x = t THEN TabContext_new ELSE tabs[x]]

\* An execute_query that registers the query before it looks the connection up.
start_then_resolve(ctx, token, is_open) == start_query(ctx, token)

\* `let open = conns.get(&conn_name).ok_or_else(..)?;` and only then
\* `ctx.start_query()`: a lookup that fails leaves the tab as it is.
resolve_then_start(ctx, token, is_open) ==
    IF is_open THEN start_query(ctx, token)
    ELSE [ctx |-> ctx, token |-> NoToken, query_id |-> ctx.query_id]

\* execute_query, first block up to `state.connections.lock().await`:
\* take the tabs lock, create the tab if needed, read its connection name.
EqBegin(p, t) ==
    /\ UNCHANGED others
    /\ pc[p] = "idle"
    /\ tabsLock = Unlocked
    /\ t \in DOMAIN tabs => tabs[t].query_id < MaxQueryId
    /\ tabs' = entry_or_default(t)
    /\ LET l == [IdleLoc EXCEPT !.cmd = "execute_query", !.tab = t,
                                !.name = tabs'[t].connection_name] IN
       IF tabs'[t].connection_name = NoConn
       THEN /\ Done(p, l, "No active connection for this tab")
            /\ tabsLock' = drop_guard(p)
       ELSE /\ pc' = [pc EXCEPT ![p] = "eq_conns"]
            /\ loc' = [loc EXCEPT ![p] = l]
            /\ tabsLock' = p
    /\ UNCHANGED << connections, connsLock, configLock, nextToken, cancelled, issued >>

\* execute_query, rest of the block: take the connections lock (the tabs lock still
\* held), look the connection up, start_query, leave the block.
EqResolve(p) ==
    /\ UNCHANGED others
    /\ pc[p] = "eq_conns"
    /\ connsLock = Unlocked
    /\ LET t == loc[p].tab
           s == resolve_then_start(tabs[t], nextToken, loc[p].name \in connections) IN
       /\ tabs' = [tabs EXCEPT ![t] = s.ctx]
       /\ IF loc[p].name \notin connections
          THEN /\ Done(p, loc[p], "Connection is not open")
               /\ UNCHANGED << nextToken, issued >>
          ELSE /\ nextToken' = nextToken + 1
               /\ issued' = issued \cup { s.query_id }
               /\ pc' = [pc EXCEPT ![p] = "eq_await"]
               /\ loc' = [loc EXCEPT ![p].token = s.token, ![p].query_id = s.query_id,
                                     ![p].backend = "pending"]
    /\ connsLock' = drop_guard(p)
    /\ tabsLock' = drop_guard(p)
    /\ UNCHANGED << connections, configLock, cancelled >>

\* The backend answers the call a command is awaiting (rows, or a rejection).
BackendRespond(p) ==
    /\ UNCHANGED others
    /\ pc[p] \in {"eq_await", "uc_await", "sc_await"}
    /\ loc[p].backend = "pending"
    /\ \E b \in {"rows", "error"} : loc' = [loc EXCEPT ![p].backend = b]
    /\ UNCHANGED << tabs, connections, tabsLock, connsLock, configLock, nextToken,
                    cancelled, issued, pc >>

\* execute_query: the select! is polled and returns.
EqPoll(p) ==
    /\ UNCHANGED others
    /\ pc[p] = "eq_await"
    /\ \E r \in select(loc[p].backend, loc[p].token \in cancelled) :
          loc' = [loc EXCEPT ![p].result = r]
    /\ pc' = [pc EXCEPT ![p] = "eq_finish"]
    /\ UNCHANGED << tabs, connections, tabsLock, connsLock, configLock, nextToken,
                    cancelled, issued >>

\* execute_query, last block: finish_query(query_id) under the tabs lock, return.
EqFinish(p) ==
    /\ UNCHANGED others
    /\ pc[p] = "eq_finish"
    /\ tabsLock = Unlocked
    /\ LET t == loc[p].tab IN
       tabs' = IF t \in DOMAIN tabs
               THEN [tabs EXCEPT ![t] = finish_query(tabs[t], loc[p].query_id)]
               ELSE tabs
    /\ tabsLock' = drop_guard(p)
    /\ Done(p, loc[p], loc[p].result)
    /\ UNCHANGED << connections, connsLock, configLock, nextToken, cancelled, issued >>

\* The command has returned to the frontend; the process is free again.
Return(p) ==
    /\ UNCHANGED others
    /\ pc[p] = "done"
    /\ pc' = [pc EXCEPT ![p] = "idle"]
    /\ loc' = [loc EXCEPT ![p] = IdleLoc]
    /\ UNCHANGED << tabs, connections, tabsLock, connsLock, configLock, nextToken,
                    cancelled, issued >>

\* cancel_query(tab_id): cancel_current_query under the tabs lock.
CancelQuery(t) ==
    /\ UNCHANGED others
    /\ tabsLock = Unlocked
    /\ IF t \in DOMAIN tabs
       THEN LET c == cancel_current_query(tabs[t]) IN
            /\ tabs' = [tabs EXCEPT ![t] = c.ctx]
            /\ cancelled' = cancelled \cup c.cancelled
            /\ loc' = [p \in Procs |->
                         IF /\ pc[p] = "eq_await"
                            /\ loc[p].token \in c.cancelled
                            /\ loc[p].backend = "pending"
                         THEN [loc[p] EXCEPT !.cancelled_waiting = TRUE]
                         ELSE loc[p]]
       ELSE UNCHANGED << tabs, cancelled, loc >>
    /\ UNCHANGED << connections, tabsLock, connsLock, configLock, nextToken, issued, pc >>

\* TabContext::swap_connection on an existing tab (the tab is reached through the
\* tabs Mutex, so the call is one step for every other operation on the tab).
SwapConnection(t, n) ==
    /\ UNCHANGED others
    /\ tabsLock = Unlocked
    /\ t \in DOMAIN tabs
    /\ tabs[t].query_id < MaxQueryId
    /\ LET s == swap_connection(tabs[t], n, n, n \in DangerousNames) IN
       /\ tabs' = [tabs EXCEPT ![t] = s.ctx]
       /\ cancelled' = cancelled \cup s.cancelled
    /\ UNCHANGED << connections, tabsLock, connsLock, configLock, nextToken, issued,
                    pc, loc >>

\* set_tab_connection(tab_id, connection_name)
SetTabConnection(t, n) ==
    /\ UNCHANGED others
    /\ tabsLock = Unlocked
    /\ tabs' = [entry_or_default(t) EXCEPT ![t].connection_name = n]
    /\ UNCHANGED << connections, tabsLock, connsLock, configLock, nextToken, cancelled,
                    issued, pc, loc >>

\* open_connection(name), first block: already open -> Ok at once.
OcCheck(p, n) ==
    /\ UNCHANGED others
    /\ pc[p] = "idle"
    /\ connsLock = Unlocked
    /\ LET l == [IdleLoc EXCEPT !.cmd = "open_connection", !.name = n] IN
       IF n \in connections
       THEN Done(p, l, "Ok")
       ELSE /\ pc' = [pc EXCEPT ![p] = "oc_config"]
            /\ loc' = [loc EXCEPT ![p] = l]
    /\ connsLock' = drop_guard(p)
    /\ UNCHANGED << tabs, connections, tabsLock, configLock, nextToken, cancelled, issued >>

\* open_connection, second block: find the saved connection under the config lock.
OcConfig(p) ==
    /\ UNCHANGED others
    /\ pc[p] = "oc_config"
    /\ configLock = Unlocked
    /\ IF loc[p].name \in Names
       THEN /\ pc' = [pc EXCEPT ![p] = "oc_connect"]
            /\ loc' = [loc EXCEPT ![p].backend = "pending"]
       ELSE Done(p, loc[p], "Connection not found")
    /\ configLock' = drop_guard(p)
    /\ UNCHANGED << tabs, connections, tabsLock, connsLock, nextToken, cancelled, issued >>

\* open_connection: build_tunnel(..).await and DatabaseConnection::connect(..).await
\* have returned; on success the entry is inserted under the connections lock.
OcConnected(p, ok) ==
    /\ UNCHANGED others
    /\ pc[p] = "oc_connect"
    /\ IF ok
       THEN /\ connsLock = Unlocked
            /\ connections' = connections \cup {loc[p].name}
            /\ connsLock' = drop_guard(p)
            /\ Done(p, [loc[p] EXCEPT !.backend = "rows"], "Ok")
       ELSE /\ Done(p, [loc[p] EXCEPT !.backend = "error"], "connect error")
            /\ UNCHANGED << connections, connsLock >>
    /\ UNCHANGED << tabs, tabsLock, configLock, nextToken, cancelled, issued >>

\* close_connection(name)
CloseConnection(n) ==
    /\ UNCHANGED others
    /\ connsLock = Unlocked
    /\ connections' = connections \ {n}
    /\ UNCHANGED << tabs, tabsLock, connsLock, configLock, nextToken, cancelled, issued,
                    pc, loc >>

\* get_schema_names / get_tables / get_columns / describe_table: clone the
\* connection under the connections lock, then await the introspection.
ScBegin(p, n) ==
    /\ UNCHANGED others
    /\ pc[p] = "idle"
    /\ connsLock = Unlocked
    /\ LET l == [IdleLoc EXCEPT !.cmd = "get_schema_names", !.name = n] IN
       IF n \in connections
       THEN /\ pc' = [pc EXCEPT ![p] = "sc_await"]
            /\ loc' = [loc EXCEPT ![p] = [l EXCEPT !.backend = "pending"]]
       ELSE Done(p, l, "Connection is not open")
    /\ connsLock' = drop_guard(p)
    /\ UNCHANGED << tabs, connections, tabsLock, configLock, nextToken, cancelled, issued >>

\* get_editable_info: extract_source_table(&sql) says whether the statement is an
\* editable SELECT; if not, Ok(not editable) at once.  Otherwise the same lookup
\* block as update_cell, up to `state.connections.lock().await`.
GeiBegin(p, t, editable) ==
    /\ UNCHANGED others
    /\ pc[p] = "idle"
    /\ LET l == [IdleLoc EXCEPT !.cmd = "get_editable_info", !.tab = t] IN
       IF ~editable
       THEN /\ Done(p, l, "Ok: not editable")
            /\ UNCHANGED tabsLock
       ELSE /\ tabsLock = Unlocked
            /\ IF t \notin DOMAIN tabs
               THEN /\ Done(p, l, "Tab not found")
                    /\ tabsLock' = drop_guard(p)
               ELSE IF tabs[t].connection_name = NoConn
               THEN /\ Done(p, l, "No active connection for this tab")
                    /\ tabsLock' = drop_guard(p)
               ELSE /\ pc' = [pc EXCEPT ![p] = "uc_conns"]
                    /\ loc' = [loc EXCEPT ![p] = [l EXCEPT !.name = tabs[t].connection_name]]
                    /\ tabsLock' = p
    /\ UNCHANGED << tabs, connections, connsLock, configLock, nextToken, cancelled, issued >>

\* update_cell (with a key set that is not empty), block up to
\* `state.connections.lock().await`.
UcBegin(p, t) ==
    /\ UNCHANGED others
    /\ pc[p] = "idle"
    /\ tabsLock = Unlocked
    /\ LET l == [IdleLoc EXCEPT !.cmd = "update_cell", !.tab = t] IN
       IF t \notin DOMAIN tabs
       THEN /\ Done(p, l, "Tab not found")
            /\ tabsLock' = drop_guard(p)
       ELSE IF tabs[t].connection_name = NoConn
       THEN /\ Done(p, l, "No active connection for this tab")
            /\ tabsLock' = drop_guard(p)
       ELSE /\ pc' = [pc EXCEPT ![p] = "uc_conns"]
            /\ loc' = [loc EXCEPT ![p] = [l EXCEPT !.name = tabs[t].connection_name]]
            /\ tabsLock' = p
    /\ UNCHANGED << tabs, connections, connsLock, configLock, nextToken, cancelled, issued >>

\* update_cell / get_editable_info, rest of the block.
UcResolve(p) ==
    /\ UNCHANGED others
    /\ pc[p] = "uc_conns"
    /\ connsLock = Unlocked
    /\ IF loc[p].name \in connections
       THEN /\ pc' = [pc EXCEPT ![p] = "uc_await"]
            /\ loc' = [loc EXCEPT ![p].backend = "pending"]
       ELSE Done(p, loc[p], "Connection is not open")
    /\ connsLock' = drop_guard(p)
    /\ tabsLock' = drop_guard(p)
    /\ UNCHANGED << tabs, connections, configLock, nextToken, cancelled, issued >>

\* The awaited introspection / update has returned; the command returns its result.
AwaitDone(p) ==
    /\ UNCHANGED others
    /\ pc[p] \in {"uc_await", "sc_await"}
    /\ loc[p].backend # "pending"
    /\ Done(p, loc[p], IF loc[p].backend = "rows" THEN "Ok" ELSE "backend error")
    /\ UNCHANGED << tabs, connections, tabsLock, connsLock, configLock, nextToken,
                    cancelled, issued >>

\* check_query_safety, first block: the tab's connection name under the tabs lock.
CqsTabs(p, t) ==
    /\ UNCHANGED others
    /\ pc[p] = "idle"
    /\ tabsLock = Unlocked
    /\ LET l == [IdleLoc EXCEPT !.cmd = "check_query_safety", !.tab = t] IN
       IF t \notin DOMAIN tabs
       THEN Done(p, l, "not dangerous")
       ELSE /\ pc' = [pc EXCEPT ![p] = "cqs_conns"]
            /\ loc' = [loc EXCEPT ![p] = [l EXCEPT !.name = tabs[t].connection_name]]
    /\ tabsLock' = drop_guard(p)
    /\ UNCHANGED << tabs, connections, connsLock, configLock, nextToken, cancelled, issued >>

\* check_query_safety, second block: the danger flag of the open connection.
CqsConns(p) ==
    /\ UNCHANGED others
    /\ pc[p] = "cqs_conns"
    /\ connsLock = Unlocked
    /\ Done(p, loc[p], IF loc[p].name \in connections /\ loc[p].name \in DangerousNames
                       THEN "dangerous" ELSE "not dangerous")
    /\ connsLock' = drop_guard(p)
    /\ UNCHANGED << tabs, connections, tabsLock, configLock, nextToken, cancelled, issued >>

-----------------------------------------------------------------------------
(* Values of the variables a specification does not use *)

ParkApp ==
    /\ tabs = << >>
    /\ connections = {}
    /\ tabsLock = Unlocked /\ connsLock = Unlocked /\ configLock = Unlocked
    /\ nextToken = 1
    /\ cancelled = {}
    /\ issued = {}
    /\ pc = [p \in Procs |-> "idle"]
    /\ loc = [p \in Procs |-> IdleLoc]

ParkHosts == known_hosts = << >> /\ chk = << >>
ParkSql == sql = << >> /\ sqlOut = << >>
ParkExec == ex = << >>
ParkTunnel == tun = << >>
ParkUpdate == upd = << >>
ParkLife == life = << >>
ParkMore == sec = << >> /\ edit = << >> /\ cell = << >> /\ env = << >> /\ lk = << >>
ParkRest == ParkTunnel /\ ParkUpdate /\ ParkLife /\ ParkMore

-----------------------------------------------------------------------------
(* Spec: AppState::new() and the commands *)

Init == ParkApp /\ ParkHosts /\ ParkSql /\ ParkExec /\ ParkRest

Next ==
    \/ \E p \in QProcs, t \in TabIds : EqBegin(p, t)
    \/ \E p \in QProcs : EqResolve(p)
    \/ \E p \in QProcs : BackendRespond(p)
    \/ \E p \in QProcs : EqPoll(p)
    \/ \E p \in QProcs : EqFinish(p)
    \/ \E p \in Procs : Return(p)
    \/ \E t \in TabIds : CancelQuery(t)
    \/ \E t \in TabIds, n \in Names : SwapConnection(t, n)
    \/ \E t \in TabIds, n \in Names \cup {NoConn} : SetTabConnection(t, n)
    \/ \E p \in AuxProcs, n \in Names : OcCheck(p, n)
    \/ \E p \in AuxProcs : OcConfig(p)
    \/ \E p \in AuxProcs, ok \in BOOLEAN : OcConnected(p, ok)
    \/ \E n \in Names : CloseConnection(n)

Spec == Init /\ [][Next]_vars

-----------------------------------------------------------------------------
(* SpecCmds: every command that takes a lock, one query task and one other task *)

OneQuery == {1}

NextCmds ==
    \/ \E p \in OneQuery, t \in TabIds : EqBegin(p, t)
    \/ \E p \in OneQuery : EqResolve(p)
    \/ \E p \in OneQuery \cup AuxProcs : BackendRespond(p)
    \/ \E p \in OneQuery : EqPoll(p)
    \/ \E p \in OneQuery : EqFinish(p)
    \/ \E p \in OneQuery \cup AuxProcs : Return(p)
    \/ \E t \in TabIds : CancelQuery(t)
    \/ \E t \in TabIds, n \in Names \cup {NoConn} : SetTabConnection(t, n)
    \/ \E p \in AuxProcs, n \in Names \cup {"ghost"} : OcCheck(p, n)
    \/ \E p \in AuxProcs : OcConfig(p)
    \/ \E p \in AuxProcs, ok \in BOOLEAN : OcConnected(p, ok)
    \/ \E n \in Names : CloseConnection(n)
    \/ \E p \in AuxProcs, n \in Names : ScBegin(p, n)
    \/ \E p \in AuxProcs, t \in TabIds : UcBegin(p, t)
    \/ \E p \in AuxProcs, t \in TabIds, editable \in BOOLEAN : GeiBegin(p, t, editable)
    \/ \E p \in AuxProcs : UcResolve(p)
    \/ \E p \in AuxProcs : AwaitDone(p)
    \/ \E p \in AuxProcs, t \in TabIds : CqsTabs(p, t)
    \/ \E p \in AuxProcs : CqsConns(p)

SpecCmds == Init /\ [][NextCmds]_vars

-----------------------------------------------------------------------------
(* SpecHosts: check_known_hosts, dendron-core/src/db/ssh.rs.  Strings are sequences *)
(* of one-character strings; the file is the sequence of its lines.               *)

Checkers == {1, 2}   \* SshTunnel::establish calls whose handshakes are under way

\* "host:port" strings (ClientHandler.host_str)
HostStrs == { <<"a", ":", "2">>, <<"b", ":", "2">> }

\* What PublicKey::to_openssh() gives for the keys a server may present:
\* "key-type base64", with or without a trailing comment.
ServerKeys == { <<"e", " ", "A">>, <<"e", " ", "B">>, <<"r", " ", "A", " ", "c">> }

\* The known_hosts file before the first check: absent/empty, or a file with a
\* comment, a blank line and one (indented) line for the first host.
InitialFiles ==
    { << >>,
      << <<"#", " ", "x">>, << >>, <<" ", "a", ":", "2", " ", "e", " ", "A", " ">> >> }

\* str::trim for the blank character
RECURSIVE trim_start(_)
trim_start(s) == IF s # << >> /\ Head(s) = " " THEN trim_start(Tail(s)) ELSE s

RECURSIVE trim_end(_)
trim_end(s) ==
    IF s # << >> /\ s[Len(s)] = " " THEN trim_end(SubSeq(s, 1, Len(s) - 1)) ELSE s

trim(s) == trim_end(trim_start(s))

\* Position of the first blank of s, Len(s) + 1 if there is none
RECURSIVE find_blank(_, _)
find_blank(s, i) ==
    IF i > Len(s) THEN i ELSE IF s[i] = " " THEN i ELSE find_blank(s, i + 1)

\* s.splitn(3, ' ') followed by three next().unwrap_or(""): the text before the first
\* blank, the text between the first and the second blank, and all the rest.
splitn(s) ==
    LET i == find_blank(s, 1)
        r == SubSeq(s, i + 1, Len(s))
        j == find_blank(r, 1)
    IN << SubSeq(s, 1, i - 1), SubSeq(r, 1, j - 1), SubSeq(r, j + 1, Len(r)) >>

\* writeln!(f, "{host_str} {key_type} {key_b64}")
format_line(host_str, key_type, key_b64) ==
    host_str \o <<" ">> \o key_type \o <<" ">> \o key_b64

\* A scan that accepts whatever key the host presents.
scan_accept_any(file, host_str, key_type, key_b64) == "Ok(true)"

\* The `for line in ...lines()` loop: the first line that is not blank, is not a
\* comment and whose first field is host_str decides; "unknown" when the loop ends.
RECURSIVE scan(_, _, _, _)
scan(file, host_str, key_type, key_b64) ==
    IF file = << >> THEN "unknown"
    ELSE LET line == trim(Head(file))
             parts == splitn(line)
         IN IF line = << >> \/ Head(line) = "#" THEN scan(Tail(file), host_str, key_type, key_b64)
            ELSE IF parts[1] # host_str THEN scan(Tail(file), host_str, key_type, key_b64)
            ELSE IF parts[2] = key_type /\ parts[3] = key_b64 THEN "Ok(true)"
            ELSE "SshHostKeyMismatch"

notHosts == << tabs, connections, tabsLock, connsLock, configLock, nextToken, cancelled,
               issued, pc, loc, sql, sqlOut, ex, tun, upd, life,
    sec, edit, cell, env, lk >>

IdleChk == [ pc |-> "idle", host_str |-> << >>, key_type |-> << >>, key_b64 |-> << >>,
             result |-> "none" ]

\* establish(): russh::client::connect calls check_server_key with the key the server
\* presented; check_known_hosts encodes it and takes its first two fields.
CheckServerKey(c, h, k) ==
    /\ UNCHANGED notHosts
    /\ chk[c].pc = "idle"
    /\ chk' = [chk EXCEPT ![c] = [ pc |-> "scan", host_str |-> h,
                                   key_type |-> splitn(k)[1], key_b64 |-> splitn(k)[2],
                                   result |-> "none" ]]
    /\ UNCHANGED known_hosts

\* check_known_hosts: the file is opened and read to its end.
ChkScan(c) ==
    /\ UNCHANGED notHosts
    /\ chk[c].pc = "scan"
    /\ LET r == scan(known_hosts, chk[c].host_str, chk[c].key_type, chk[c].key_b64) IN
       chk' = IF r = "unknown"
              THEN [chk EXCEPT ![c].pc = "append"]
              ELSE [chk EXCEPT ![c].pc = "done", ![c].result = r]
    /\ UNCHANGED known_hosts

\* check_known_hosts: the file is opened for append and the line written.
ChkAppend(c) ==
    /\ UNCHANGED notHosts
    /\ chk[c].pc = "append"
    /\ known_hosts' = Append(known_hosts,
                             format_line(chk[c].host_str, chk[c].key_type, chk[c].key_b64))
    /\ chk' = [chk EXCEPT ![c].pc = "done", ![c].result = "Ok(true)"]

\* connect() returns to establish(): the session, or the handler's error.
ChkReturn(c) ==
    /\ UNCHANGED notHosts
    /\ chk[c].pc = "done"
    /\ chk' = [chk EXCEPT ![c] = IdleChk]
    /\ UNCHANGED known_hosts

InitHosts ==
    /\ ParkApp /\ ParkSql /\ ParkExec /\ ParkRest
    /\ known_hosts \in InitialFiles
    /\ chk = [c \in Checkers |-> IdleChk]

NextHosts ==
    \/ \E c \in Checkers, h \in HostStrs, k \in ServerKeys : CheckServerKey(c, h, k)
    \/ \E c \in Checkers : ChkScan(c)
    \/ \E c \in Checkers : ChkAppend(c)
    \/ \E c \in Checkers : ChkReturn(c)

SpecHosts == InitHosts /\ [][NextHosts]_vars

-----------------------------------------------------------------------------
(* SpecSql: the classifier (dendron-core/src/query.rs) and the statement that     *)
(* execute_query sends (src-tauri/src/commands/queries.rs).  A batch is the       *)
(* sequence of its statements; a statement is given by its first word, by the     *)
(* Statement the parser builds for it, and by the dialects that parse it.         *)

MaxBatch == 3                 \* statements in a batch

DEFAULT_ROW_LIMIT == 1000

Offsets == {0, 1000}

\* The dialects in the order the classifier tries them
Dialects == << "PostgreSqlDialect", "SQLiteDialect", "GenericDialect" >>

AllDialects == { Dialects[i] : i \in 1 .. Len(Dialects) }

Stmt(first_word, ast, order_by, parses) ==
    [ first_word |-> first_word, ast |-> ast, order_by |-> order_by, parses |-> parses ]

Statements ==
    { Stmt("SELECT",   "Query",            FALSE, AllDialects),      \* SELECT a FROM t
      Stmt("SELECT",   "Query",            TRUE,  AllDialects),      \* SELECT a FROM t ORDER BY a
      Stmt("with",     "Query",            FALSE, AllDialects),      \* with c as (..) select ..
      Stmt("VALUES",   "Query",            FALSE, AllDialects),      \* VALUES (1)
      Stmt("INSERT",   "Insert",           FALSE, AllDialects),
      Stmt("INSERT",   "Insert",           FALSE, {"GenericDialect"}), \* .. ON DUPLICATE KEY UPDATE ..
      Stmt("UPDATE",   "Update",           FALSE, AllDialects),
      Stmt("DELETE",   "Delete",           FALSE, AllDialects),
      Stmt("DROP",     "Drop",             FALSE, AllDialects),      \* DROP TABLE t
      Stmt("TRUNCATE", "Truncate",         FALSE, AllDialects),
      Stmt("ALTER",    "AlterTable",       FALSE, AllDialects),
      Stmt("CREATE",   "CreateTable",      FALSE, AllDialects),
      Stmt("BEGIN",    "StartTransaction", FALSE, AllDialects),
      Stmt("SELEC",    "none",             FALSE, {}) }              \* no dialect parses it

RECURSIVE SeqsUpTo(_, _)
SeqsUpTo(S, n) ==
    IF n = 0 THEN { << >> }
    ELSE LET shorter == SeqsUpTo(S, n - 1) IN
         shorter \cup { Append(b, x) : b \in shorter, x \in S }

\* The SQL texts handed in: a batch, with or without a trailing semicolon.
SqlTexts == [ batch : SeqsUpTo(Statements, MaxBatch), trailing_semicolon : BOOLEAN ]

\* sql.trim_end().trim_end_matches(';')
trim_end_matches_semicolon(text) == [text EXCEPT !.trailing_semicolon = FALSE]

\* Parser::parse_sql(dialect, sql): Ok(statements) when the dialect parses every
\* statement of the text, Err otherwise.
parse_sql(dialect, text) ==
    IF \A i \in 1 .. Len(text.batch) : dialect \in text.batch[i].parses
    THEN [ ok |-> TRUE, statements |-> text.batch ]
    ELSE [ ok |-> FALSE, statements |-> << >> ]

classify_statement(stmt) ==
    CASE stmt.ast = "Query" -> "Select"
      [] stmt.ast = "Insert" -> "Insert"
      [] stmt.ast = "Update" -> "Update"
      [] stmt.ast = "Delete" -> "Delete"
      [] stmt.ast = "Drop" -> "Drop"
      [] stmt.ast = "Truncate" -> "Truncate"
      [] stmt.ast \in {"AlterTable", "AlterIndex"} -> "Alter"
      [] stmt.ast \in {"CreateTable", "CreateIndex", "CreateView", "CreateSchema",
                       "CreateDatabase"} -> "Create"
      [] OTHER -> "Other"

to_uppercase(w) == IF w = "with" THEN "WITH" ELSE w

\* analyze_query_fallback: the first word of the text decides.
analyze_query_fallback(text) ==
    IF text.batch = << >> THEN "Other"
    ELSE LET first_word == to_uppercase(text.batch[1].first_word) IN
         CASE first_word \in {"SELECT", "WITH"} -> "Select"
           [] first_word = "INSERT" -> "Insert"
           [] first_word = "UPDATE" -> "Update"
           [] first_word = "DELETE" -> "Delete"
           [] first_word = "DROP" -> "Drop"
           [] first_word = "TRUNCATE" -> "Truncate"
           [] first_word = "ALTER" -> "Alter"
           [] first_word = "CREATE" -> "Create"
           [] OTHER -> "Other"

\* analyze_query: the first dialect (from position i on) whose parse is Ok and not
\* empty classifies the first statement; the fallback when there is none.
RECURSIVE analyze_query_from(_, _)
analyze_query_from(text, i) ==
    IF i > Len(Dialects) THEN analyze_query_fallback(text)
    ELSE LET r == parse_sql(Dialects[i], text) IN
         IF r.ok /\ r.statements # << >>
         THEN classify_statement(r.statements[1])
         ELSE analyze_query_from(text, i + 1)

analyze_query(text) == analyze_query_from(text, 1)

\* has_top_level_order_by: the first dialect whose parse is Ok decides.
RECURSIVE has_top_level_order_by_from(_, _)
has_top_level_order_by_from(text, i) ==
    IF i > Len(Dialects) THEN TRUE
    ELSE LET r == parse_sql(Dialects[i], text) IN
         IF r.ok
         THEN IF r.statements # << >> /\ r.statements[1].ast = "Query"
              THEN r.statements[1].order_by
              ELSE TRUE
         ELSE has_top_level_order_by_from(text, i + 1)

has_top_level_order_by(text) == has_top_level_order_by_from(text, 1)

\* analyze_multi_statement: the types of all statements under the first dialect
\* that parses the text; one type, from the fallback, when none does.
RECURSIVE analyze_multi_statement_from(_, _)
analyze_multi_statement_from(text, i) ==
    IF i > Len(Dialects) THEN << analyze_query_fallback(text) >>
    ELSE LET r == parse_sql(Dialects[i], text) IN
         IF r.ok
         THEN [ k \in 1 .. Len(r.statements) |-> classify_statement(r.statements[k]) ]
         ELSE analyze_multi_statement_from(text, i + 1)

analyze_multi_statement(text) == analyze_multi_statement_from(text, 1)

\* A most_dangerous_type that answers with the type of the first statement.
most_dangerous_type_first(text) ==
    LET types == analyze_multi_statement(text)
    IN IF types = << >> THEN "Other" ELSE types[1]

most_dangerous_type(text) ==
    LET types == analyze_multi_statement(text)
        any(t) == \E k \in 1 .. Len(types) : types[k] = t
    IN IF any("Drop") THEN "Drop"
       ELSE IF any("Truncate") THEN "Truncate"
       ELSE IF any("Delete") THEN "Delete"
       ELSE IF any("Update") THEN "Update"
       ELSE IF any("Alter") THEN "Alter"
       ELSE IF any("Insert") THEN "Insert"
       ELSE IF any("Create") THEN "Create"
       ELSE IF any("Select") THEN "Select"
       ELSE "Other"

\* An execute_query that wraps only a SELECT without a top-level ORDER BY.
effective_sql_gated(text, is_select, has_order_by, offset) ==
    IF is_select /\ ~has_order_by
    THEN [ wrapped |-> TRUE, inner |-> text, limit |-> DEFAULT_ROW_LIMIT + 1,
           offset |-> offset ]
    ELSE [ wrapped |-> FALSE, inner |-> text, limit |-> 0, offset |-> 0 ]

\* execute_query: `let effective_sql = if is_select { format!(..) } else { sql }`.
\* wrapped stands for "SELECT * FROM ({inner}) q LIMIT {limit} OFFSET {offset}".
effective_sql(text, is_select, has_order_by, offset) ==
    IF is_select
    THEN [ wrapped |-> TRUE, inner |-> text, limit |-> DEFAULT_ROW_LIMIT + 1,
           offset |-> offset ]
    ELSE [ wrapped |-> FALSE, inner |-> text, limit |-> 0, offset |-> 0 ]

notSql == << tabs, connections, tabsLock, connsLock, configLock, nextToken, cancelled,
             issued, pc, loc, known_hosts, chk, ex, tun, upd, life,
    sec, edit, cell, env, lk >>

NoOutput == [ op |-> "none" ]

\* analyze_query(sql) is called.
AnalyzeQuery ==
    /\ UNCHANGED notSql
    /\ sqlOut = NoOutput
    /\ sqlOut' = [ op |-> "analyze_query", query_type |-> analyze_query(sql) ]
    /\ UNCHANGED sql

\* most_dangerous_type(sql) is called.
MostDangerousType ==
    /\ UNCHANGED notSql
    /\ sqlOut = NoOutput
    /\ sqlOut' = [ op |-> "most_dangerous_type",
                   types |-> analyze_multi_statement(sql),
                   query_type |-> most_dangerous_type(sql) ]
    /\ UNCHANGED sql

\* execute_query(tab_id, sql, offset) up to the statement it will send.
ExecuteQueryPrepare(offset) ==
    /\ UNCHANGED notSql
    /\ sqlOut = NoOutput
    /\ LET stripped == trim_end_matches_semicolon(sql)
           is_select == analyze_query(stripped) = "Select"
           has_order_by == IF is_select THEN has_top_level_order_by(stripped) ELSE TRUE
       IN sqlOut' = [ op |-> "execute_query",
                      sql |-> stripped,
                      offset |-> offset,
                      is_select |-> is_select,
                      has_order_by |-> has_order_by,
                      effective_sql |-> effective_sql(stripped, is_select, has_order_by, offset) ]
    /\ UNCHANGED sql

\* QueryType::is_destructive
is_destructive(query_type) ==
    query_type \in {"Insert", "Update", "Delete", "Drop", "Truncate", "Alter"}

\* The tag lists of the saved connection
TagLists == { << >>, << "dev" >>, << "PROD" >>, << "dev", "Sensitive" >> }

to_lowercase(t) ==
    CASE t = "PROD" -> "prod"
      [] t = "Sensitive" -> "sensitive"
      [] OTHER -> t

\* SavedConnection::is_dangerous (stored in OpenConnection.is_dangerous by open_connection)
is_dangerous(tags) ==
    \E i \in 1 .. Len(tags) : to_lowercase(tags[i]) \in {"prod", "production", "sensitive"}

\* QuerySafetyCheck::check(sql, connection_name, is_dangerous_connection)
QuerySafetyCheck_check(text, connection_name, is_dangerous_connection) ==
    LET query_type == most_dangerous_type(text) IN
    [ query_type |-> query_type,
      is_dangerous_connection |-> is_dangerous_connection,
      connection_name |-> connection_name,
      requires_confirmation |-> is_destructive(query_type) /\ is_dangerous_connection ]

\* What check_query_safety finds for the tab: no tab; a tab without a connection
\* name; a tab that points at the connection, which is open or not.
TabCases == { "no tab", "no connection", "open", "closed" }

\* check_query_safety(sql, tab_id): the tab's connection name, the danger flag of
\* the open connection of that name (false when it is not open), then the check.
CheckQuerySafety(tab, tags) ==
    /\ UNCHANGED notSql
    /\ sqlOut = NoOutput
    /\ LET conn_name == IF tab \in {"open", "closed"} THEN "prod" ELSE ""
           dangerous == IF tab = "open" THEN is_dangerous(tags) ELSE FALSE
       IN sqlOut' = [ op |-> "check_query_safety", tab |-> tab, tags |-> tags,
                      check |-> IF tab = "no tab"
                                THEN QuerySafetyCheck_check(sql, "unknown", FALSE)
                                ELSE QuerySafetyCheck_check(sql, conn_name, dangerous) ]
    /\ UNCHANGED sql

InitSql ==
    /\ ParkApp /\ ParkHosts /\ ParkExec /\ ParkRest
    /\ sql \in SqlTexts
    /\ sqlOut = NoOutput

NextSql ==
    \/ AnalyzeQuery
    \/ MostDangerousType
    \/ \E offset \in Offsets : ExecuteQueryPrepare(offset)
    \/ \E tab \in TabCases, tags \in TagLists : CheckQuerySafety(tab, tags)

SpecSql == InitSql /\ [][NextSql]_vars

-----------------------------------------------------------------------------
(* SpecExec: DatabaseConnection::execute_query, src-tauri/src/db/postgres.rs.     *)
(* The backend has n rows for the statement; every row of the result set carries  *)
(* the same column list.                                                         *)

RowCounts == { 0, 1, DEFAULT_ROW_LIMIT - 1, DEFAULT_ROW_LIMIT, DEFAULT_ROW_LIMIT + 1,
               DEFAULT_ROW_LIMIT + 2 }

ColumnLists == { << [name |-> "id", type |-> "INT4"] >>,
                 << [name |-> "id", type |-> "INT4"], [name |-> "doc", type |-> "JSONB"] >> }

\* The cap test with >= : stops one row early.
at_limit(len) == len >= DEFAULT_ROW_LIMIT

\* `collected.len() > DEFAULT_ROW_LIMIT`
over_limit(len) == len > DEFAULT_ROW_LIMIT

\* The QueryResult built from the collected rows (after the loop).
build_result(collected) ==
    LET truncated == over_limit(Len(collected))
        kept == IF truncated THEN SubSeq(collected, 1, Len(collected) - 1) ELSE collected
        rows == [ r \in 1 .. Len(kept) |->
                    [ i \in 1 .. Len(kept[r].columns) |-> "text" ] ]
    IN [ ok           |-> TRUE,
         columns      |-> IF kept # << >>
                          THEN [ i \in 1 .. Len(kept[1].columns) |-> kept[1].columns[i].name ]
                          ELSE << >>,
         column_types |-> IF kept # << >>
                          THEN [ i \in 1 .. Len(kept[1].columns) |-> kept[1].columns[i].type ]
                          ELSE << >>,
         rows         |-> rows,
         row_count    |-> Len(rows),
         truncated    |-> truncated ]

notExec == << tabs, connections, tabsLock, connsLock, configLock, nextToken, cancelled,
              issued, pc, loc, known_hosts, chk, sql, sqlOut, tun, upd, life,
    sec, edit, cell, env, lk >>

\* stream.try_next().await gives the next row, or None at the end of the result.
TryNext ==
    /\ UNCHANGED notExec
    /\ ex.pc = "stream"
    /\ IF ex.pulled < ex.n
       THEN LET collected == Append(ex.collected, [ columns |-> ex.columns ]) IN
            ex' = [ex EXCEPT !.pulled = @ + 1,
                             !.collected = collected,
                             !.pc = IF over_limit(Len(collected)) THEN "build" ELSE "stream"]
       ELSE ex' = [ex EXCEPT !.pc = "build"]

\* stream.try_next().await? gives an error: execute_query returns it.
TryNextError ==
    /\ UNCHANGED notExec
    /\ ex.pc = "stream"
    /\ ex' = [ex EXCEPT !.pc = "done", !.result = [ ok |-> FALSE ]]

\* After the loop: truncated, pop, columns, rows, row_count.
BuildResult ==
    /\ UNCHANGED notExec
    /\ ex.pc = "build"
    /\ ex' = [ex EXCEPT !.pc = "done", !.result = build_result(ex.collected)]

InitExec ==
    /\ ParkApp /\ ParkHosts /\ ParkSql /\ ParkRest
    /\ \E n \in RowCounts, cols \in ColumnLists :
          ex = [ pc |-> "stream", n |-> n, columns |-> cols, pulled |-> 0,
                 collected |-> << >>, result |-> [ ok |-> FALSE ] ]

NextExec ==
    \/ TryNext
    \/ TryNextError
    \/ BuildResult

SpecExec == InitExec /\ [][NextExec]_vars

-----------------------------------------------------------------------------
(* SpecTunnel: SshTunnel (dendron-core/src/db/ssh.rs): establish, the forwarder   *)
(* task with its accept loop, the forward task of every accepted connection,     *)
(* and Drop.                                                                     *)

MaxLocalConns == 3     \* local connections made to the tunnel's port

notTunnel == << tabs, connections, tabsLock, connsLock, configLock, nextToken, cancelled,
                issued, pc, loc, known_hosts, chk, sql, sqlOut, ex, upd, life,
    sec, edit, cell, env, lk >>

\* Before establish() is called: no session, no listener, no task.
NoTunnel ==
    [ pc            |-> "connect",   \* position of establish(): connect / authenticate / bind / returned
      result        |-> "none",      \* what establish() returned
      key_accepted  |-> FALSE,       \* check_server_key returned Ok(true)
      authenticated |-> FALSE,       \* authenticate returned Ok(true)
      listener      |-> FALSE,       \* the TcpListener exists
      loop          |-> "none",      \* the forwarder task: none / running / stopped
      shutdown      |-> FALSE,       \* the shutdown token is cancelled
      held          |-> FALSE,       \* the SshTunnel value exists
      backlog       |-> 0,           \* local connections waiting to be accepted
      arrived       |-> 0,           \* local connections made so far
      streams       |-> << >> ]      \* forward tasks: opening / copying / closed / failed

\* establish() that goes on when authenticate returned Ok(false).
after_authenticate_unchecked(ok) == "bind"

\* `let ok = authenticate(..).await?; if !ok { return Err(SshAuthFailed) }`
after_authenticate(ok) == IF ok THEN "bind" ELSE "returned"

\* An accept loop that stops when a forward task reports an error.
on_forward_error_break(loop) == "stopped"

\* `if let Err(e) = forward(..).await { eprintln!(..) }` inside the spawned task:
\* the error is printed there and the accept loop is not told.
on_forward_error(loop) == loop

\* The branches the loop's select! can take when polled: `shutdown_fwd.cancelled()`
\* when the token is cancelled, `listener.accept()` when a connection waits; with
\* both ready it picks the one to check first at random.
loop_select(shutdown, backlog) ==
    (IF shutdown THEN {"break"} ELSE {}) \cup (IF backlog > 0 THEN {"accept"} ELSE {})

\* establish: russh::client::connect with the handler; the handshake calls
\* check_server_key.  A TCP/SSH error or an Err from the handler fails the connect.
TunConnect(outcome) ==
    /\ UNCHANGED notTunnel
    /\ tun.pc = "connect"
    /\ tun' = IF outcome = "session"
              THEN [tun EXCEPT !.pc = "authenticate", !.key_accepted = TRUE]
              ELSE [tun EXCEPT !.pc = "returned", !.result = "SshConnectionFailed"]

\* establish: authenticate(..).await? and the test of its answer.
TunAuthenticate(outcome) ==
    /\ UNCHANGED notTunnel
    /\ tun.pc = "authenticate"
    /\ tun' = IF outcome = "error"
              THEN [tun EXCEPT !.pc = "returned", !.result = "SshAuthFailed"]
              ELSE LET next == after_authenticate(outcome = "success") IN
                   [tun EXCEPT !.pc = next,
                               !.authenticated = (outcome = "success"),
                               !.result = IF next = "returned" THEN "SshAuthFailed" ELSE @]

\* establish: bind the listener; then (no await in between) create the shutdown
\* token, spawn the forwarder and return the SshTunnel.
TunBind(ok) ==
    /\ UNCHANGED notTunnel
    /\ tun.pc = "bind"
    /\ tun' = IF ok
              THEN [tun EXCEPT !.pc = "returned", !.result = "Ok", !.listener = TRUE,
                               !.loop = "running", !.held = TRUE]
              ELSE [tun EXCEPT !.pc = "returned", !.result = "SshTunnelFailed"]

\* A client (the pool) connects to 127.0.0.1:local_port.
LocalConnect ==
    /\ UNCHANGED notTunnel
    /\ tun.listener
    /\ tun.arrived < MaxLocalConns
    /\ tun' = [tun EXCEPT !.backlog = @ + 1, !.arrived = @ + 1]

\* Forwarder: the select! takes `listener.accept()` with Ok: a forward task is spawned.
LoopAccept ==
    /\ UNCHANGED notTunnel
    /\ tun.loop = "running"
    /\ "accept" \in loop_select(tun.shutdown, tun.backlog)
    /\ tun' = [tun EXCEPT !.backlog = @ - 1, !.streams = Append(@, "opening")]

\* Forwarder: `listener.accept()` gives Err: break.  The task ends, the listener
\* it owns is dropped.
LoopAcceptError ==
    /\ UNCHANGED notTunnel
    /\ tun.loop = "running"
    /\ tun' = [tun EXCEPT !.loop = "stopped", !.listener = FALSE, !.backlog = 0]

\* Forwarder: the select! takes `shutdown_fwd.cancelled()`: break.
LoopShutdown ==
    /\ UNCHANGED notTunnel
    /\ tun.loop = "running"
    /\ "break" \in loop_select(tun.shutdown, tun.backlog)
    /\ tun' = [tun EXCEPT !.loop = "stopped", !.listener = FALSE, !.backlog = 0]

\* Drop for SshTunnel: shutdown.cancel().  (Dropping the JoinHandle detaches the task.)
TunDrop ==
    /\ UNCHANGED notTunnel
    /\ tun.held
    /\ tun' = [tun EXCEPT !.held = FALSE, !.shutdown = TRUE]

\* forward: channel_open_direct_tcpip returns the channel, or an error.
StreamOpen(i, ok) ==
    /\ UNCHANGED notTunnel
    /\ i \in DOMAIN tun.streams
    /\ tun.streams[i] = "opening"
    /\ tun' = IF ok
              THEN [tun EXCEPT !.streams[i] = "copying"]
              ELSE [tun EXCEPT !.streams[i] = "failed", !.loop = on_forward_error(@)]

\* forward: copy_bidirectional returns: both ends closed, or an error.
StreamEnd(i, ok) ==
    /\ UNCHANGED notTunnel
    /\ i \in DOMAIN tun.streams
    /\ tun.streams[i] = "copying"
    /\ tun' = IF ok
              THEN [tun EXCEPT !.streams[i] = "closed"]
              ELSE [tun EXCEPT !.streams[i] = "failed", !.loop = on_forward_error(@)]

InitTunnel ==
    /\ ParkApp /\ ParkHosts /\ ParkSql /\ ParkExec /\ ParkUpdate /\ ParkLife /\ ParkMore
    /\ tun = NoTunnel

NextTunnel ==
    \/ \E outcome \in {"session", "connect error", "SshHostKeyMismatch"} : TunConnect(outcome)
    \/ \E outcome \in {"success", "exhausted", "error"} : TunAuthenticate(outcome)
    \/ \E ok \in BOOLEAN : TunBind(ok)
    \/ LocalConnect
    \/ LoopAccept
    \/ LoopAcceptError
    \/ LoopShutdown
    \/ TunDrop
    \/ \E i \in 1 .. MaxLocalConns, ok \in BOOLEAN : StreamOpen(i, ok)
    \/ \E i \in 1 .. MaxLocalConns, ok \in BOOLEAN : StreamEnd(i, ok)

SpecTunnel == InitTunnel /\ [][NextTunnel]_vars

-----------------------------------------------------------------------------
(* SpecUpdate: the update_cell command (src-tauri/src/commands/queries.rs) and   *)
(* DatabaseConnection::update_cell (dendron-core/src/db/connection.rs), which    *)
(* builds the UPDATE statement and its bind list.                                *)
(*                                                                               *)
(* A text is a sequence of pieces.  An identifier is a sequence of characters,   *)
(* and may contain the double quote, the placeholder characters and the piece    *)
(* " AND "; the fixed parts of the format strings are one piece per lexeme.      *)

MaxPk == 2             \* primary-key columns of one call
MaxAffected == 2       \* rows the backend reports as affected

Backends == {"Postgres", "Sqlite"}

Idents ==
    { << "i", "d" >>,
      << "a", "\"", "$", "1" >>,
      << "\"", " AND ", "?" >> }

Values == {"42", "x' OR 1=1"}

\* Option<String>: << >> is None, << v >> is Some(v).
OptValues == { << >> } \cup { << v >> : v \in Values }

PkColumn == [name : Idents, value : Values]

PkColumnLists == UNION { [1 .. n -> PkColumn] : n \in 0 .. MaxPk }

BackendErrors == {"error returned from database", "pool timed out"}

BackendReplies ==
    [kind : {"rows"}, n : 0 .. MaxAffected, e : {""}]
        \cup [kind : {"error"}, n : {0}, e : BackendErrors]

NoReply == [kind |-> "none", n |-> 0, e |-> ""]

Numerals == << "1", "2", "3", "4", "5", "6", "7", "8", "9" >>

\* `{}` of an integer in a format string.
itoa(n) == Numerals[n]

Ok(n) == [kind |-> "Ok", n |-> n, msg |-> ""]
Err(msg) == [kind |-> "Err", n |-> 0, msg |-> msg]
NoResult == [kind |-> "none", n |-> 0, msg |-> ""]

\* name.replace('"', "\"\"")
RECURSIVE replace_quote(_)
replace_quote(name) ==
    IF name = << >> THEN << >>
    ELSE (IF Head(name) = "\"" THEN << "\"", "\"" >> ELSE << Head(name) >>)
             \o replace_quote(Tail(name))

\* A quote_ident that does not escape embedded double quotes.
quote_ident_no_escape(name) == << "\"" >> \o name \o << "\"" >>

\* format!("\"{}\"", name.replace('"', "\"\""))
quote_ident(name) == << "\"" >> \o replace_quote(name) \o << "\"" >>

\* .collect::<Vec<_>>().join(sep)
RECURSIVE join(_, _)
join(parts, sep) ==
    IF parts = << >> THEN << >>
    ELSE IF Len(parts) = 1 THEN parts[1]
    ELSE parts[1] \o << sep >> \o join(Tail(parts), sep)

\* format!("{} = $1", quote_ident(column)) / format!("{} = ?", quote_ident(column))
set_clause(backend, column) ==
    IF backend = "Postgres"
    THEN quote_ident(column) \o << " = ", "$", "1" >>
    ELSE quote_ident(column) \o << " = ", "?" >>

\* pk_columns.iter().enumerate().map(|(i, (name, _))| format!("{} = ${}", .., i + 2))
\* (i counts from 0 in the code, from 1 here) / format!("{} = ?", ..); join(" AND ")
where_clause(backend, pk_columns) ==
    join([i \in 1 .. Len(pk_columns) |->
            IF backend = "Postgres"
            THEN quote_ident(pk_columns[i].name) \o << " = ", "$", itoa(i + 1) >>
            ELSE quote_ident(pk_columns[i].name) \o << " = ", "?" >>],
         " AND ")

\* format!("UPDATE {}.{} SET {} WHERE {}", quote_ident(schema), quote_ident(table), ..)
update_statement(backend, schema, table, column, pk_columns) ==
    << "UPDATE " >> \o quote_ident(schema) \o << "." >> \o quote_ident(table)
        \o << " SET " >> \o set_clause(backend, column)
        \o << " WHERE " >> \o where_clause(backend, pk_columns)

\* query.bind(new_value) and then, for (_, val) in pk_columns, query.bind(val)
update_binds(new_value, pk_columns) ==
    << new_value >> \o [i \in 1 .. Len(pk_columns) |-> << pk_columns[i].value >>]

\* DatabaseConnection::update_cell up to query.execute(pool): the error of the empty
\* key set, or the statement and the bind list handed to the pool.
DatabaseConnection_update_cell(backend, schema, table, column, new_value, pk_columns) ==
    IF pk_columns = << >>
    THEN [kind |-> "Err", msg |-> "No primary key columns provided",
          sql |-> << >>, binds |-> << >>]
    ELSE [kind |-> "Query", msg |-> "",
          sql |-> update_statement(backend, schema, table, column, pk_columns),
          binds |-> update_binds(new_value, pk_columns)]

\* An update_cell command that returns whatever count the backend reported.
check_affected_any(affected) == Ok(affected)

\* if affected == 0 { Err(..) }  if affected > 1 { Err(..) }  Ok(affected)
check_affected(affected) ==
    IF affected = 0 THEN Err("No rows were updated")
    ELSE IF affected > 1 THEN [Err("Expected 1 row affected") EXCEPT !.n = affected]
    ELSE Ok(affected)

\* The lookup block of update_cell: the error it returns, or "" when it found the pool.
resolve_error(tab) ==
    CASE tab = "no tab" -> "Tab not found"
      [] tab = "no connection" -> "No active connection for this tab"
      [] tab = "closed" -> "Connection is not open"
      [] OTHER -> ""

notUpdate == << tabs, connections, tabsLock, connsLock, configLock, nextToken, cancelled,
                issued, pc, loc, known_hosts, chk, sql, sqlOut, ex, tun, life,
    sec, edit, cell, env, lk >>

\* No update_cell call in progress.
NoUpdate ==
    [ pc         |-> "idle",      \* idle / execute (waiting for the backend) / returned
      backend    |-> "Postgres",
      column     |-> << >>,
      new_value  |-> << >>,
      pk_columns |-> << >>,
      sql        |-> << >>,       \* the statement handed to the pool
      binds      |-> << >>,       \* its bind list
      executed   |-> 0,           \* statements the backend has run for this call
      reply      |-> NoReply,     \* what the backend answered
      result     |-> NoResult ]   \* what the command returned

\* update_cell up to `conn.update_cell(..).await`: the check of the key set, the
\* lookup of the tab's pool, the statement and the binds.
UpdateCellCall ==
    /\ upd.pc = "idle"
    /\ \E tab \in TabCases, backend \in Backends, column \in Idents,
          new_value \in OptValues, pk_columns \in PkColumnLists :
       LET call == [NoUpdate EXCEPT !.backend = backend, !.column = column,
                                    !.new_value = new_value, !.pk_columns = pk_columns]
           q == DatabaseConnection_update_cell(backend, << "public" >>, << "t" >>,
                                               column, new_value, pk_columns)
       IN upd' =
            IF pk_columns = << >>
            THEN [call EXCEPT !.pc = "returned",
                              !.result = Err("No primary key columns provided")]
            ELSE IF resolve_error(tab) # ""
            THEN [call EXCEPT !.pc = "returned", !.result = Err(resolve_error(tab))]
            ELSE IF q.kind = "Err"
            THEN [call EXCEPT !.pc = "returned", !.result = Err(q.msg)]
            ELSE [call EXCEPT !.pc = "execute", !.sql = q.sql, !.binds = q.binds]
    /\ UNCHANGED notUpdate

\* query.execute(pool).await answers, and update_cell returns: the backend's error
\* through map_err(|e| e.to_string())?, or the check of the affected-row count.
UpdateCellReturn(reply) ==
    /\ upd.pc = "execute"
    /\ upd' = [upd EXCEPT !.pc = "returned",
                          !.executed = @ + 1,
                          !.reply = reply,
                          !.result = IF reply.kind = "error" THEN Err(reply.e)
                                     ELSE check_affected(reply.n)]
    /\ UNCHANGED notUpdate

InitUpdate ==
    /\ ParkApp /\ ParkHosts /\ ParkSql /\ ParkExec /\ ParkTunnel /\ ParkLife /\ ParkMore
    /\ upd = NoUpdate

NextUpdate ==
    \/ UpdateCellCall
    \/ \E reply \in BackendReplies : UpdateCellReturn(reply)

SpecUpdate == InitUpdate /\ [][NextUpdate]_vars

-----------------------------------------------------------------------------
(* SpecLife: who owns an SshTunnel and a pool, and when they go away             *)
(* (src-tauri/src/commands/connections.rs: test_connection, open_connection,     *)
(* close_connection; src-tauri/src/commands/queries.rs: execute_query).          *)
(* One connection name; every successful open_connection makes one               *)
(* OpenConnection value, numbered in the order of creation.                      *)

MaxOpens == 2          \* OpenConnection values made in one behaviour
MaxRunning == 2        \* queries running on one pool at a time

notLife == << tabs, connections, tabsLock, connsLock, configLock, nextToken, cancelled,
              issued, pc, loc, known_hosts, chk, sql, sqlOut, ex, tun, upd,
              sec, edit, cell, env, lk >>

\* An SshTunnel value goes out of scope: Drop cancels the shutdown token.  A
\* connection without SSH has no tunnel (None).
drop_tunnel(tunnel) == IF tunnel = "up" THEN "down" ELSE tunnel

\* The last Arc<OpenConnection> goes away: the value drops its fields, that is its
\* reference to the pool and its _ssh_tunnel.
drop_open_connection(open) ==
    [open EXCEPT !.table = FALSE, !.tunnel = drop_tunnel(@)]

\* Nothing opened, no command running.
NoLife ==
    [ opc   |-> "idle",     \* open_connection: idle / check / tunnel / connect / returned
      ores  |-> "none",     \* the return it took: none / Ok (already open) / Ok / Err
      otun  |-> "none",     \* its local `tunnel`: none / up / down
      table |-> 0,          \* the OpenConnection the table holds under the name (0: none)
      opens |-> << >>,      \* the OpenConnection values: [table, tunnel, queries]
      tpc   |-> "idle",     \* test_connection: idle / probe / returned
      ttun  |-> "none",     \* its local `_tunnel`: none / up / down
      probe |-> "none" ]    \* the database probe: none / running / ok / failed

\* An open_connection that goes on to connect whether or not the name is open.
open_check_always_connect(is_open) == "tunnel"

\* if conns.contains_key(&name) { return Ok(()); }
open_check(is_open) == IF is_open THEN "returned" ELSE "tunnel"

\* open_connection(name) is called and waits for the connections lock.
LifeOpenCall ==
    /\ life.opc \in {"idle", "returned"}
    /\ Len(life.opens) < MaxOpens
    /\ life' = [life EXCEPT !.opc = "check", !.ores = "none"]
    /\ UNCHANGED notLife

\* open_connection, the block that looks the name up: Ok(()) at once when it is open.
LifeOpenCheck ==
    /\ life.opc = "check"
    /\ life' = [life EXCEPT !.opc = open_check(life.table # 0),
                            !.ores = IF open_check(life.table # 0) = "returned"
                                     THEN "Ok (already open)" ELSE "none"]
    /\ UNCHANGED notLife

\* build_tunnel(&saved).await?
LifeOpenTunnel(outcome) ==
    /\ life.opc = "tunnel"
    /\ life' = CASE outcome = "error" -> [life EXCEPT !.opc = "returned", !.ores = "Err"]
                 [] outcome = "tunnel" -> [life EXCEPT !.opc = "connect", !.otun = "up"]
                 [] OTHER -> [life EXCEPT !.opc = "connect", !.otun = "none"]
    /\ UNCHANGED notLife

\* DatabaseConnection::connect(..).await, and on success Arc::new(OpenConnection {..})
\* and connections.insert(name, open), which drops the value it replaces; on failure
\* the local tunnel goes out of scope.
LifeOpenConnect(ok) ==
    /\ life.opc = "connect"
    /\ life' =
         IF ok
         THEN LET old == [i \in 1 .. Len(life.opens) |->
                            IF i = life.table THEN drop_open_connection(life.opens[i])
                            ELSE life.opens[i]]
              IN [life EXCEPT !.opc = "returned", !.ores = "Ok", !.otun = "none",
                              !.opens = Append(old, [table |-> TRUE, tunnel |-> life.otun,
                                                     queries |-> 0]),
                              !.table = Len(life.opens) + 1]
         ELSE [life EXCEPT !.opc = "returned", !.ores = "Err", !.otun = drop_tunnel(@)]
    /\ UNCHANGED notLife

\* close_connection: connections.remove(&name); the removed Arc<OpenConnection> is
\* the only one, so the value is dropped.
LifeClose ==
    /\ life.table # 0
    /\ life' = [life EXCEPT !.table = 0,
                            !.opens[life.table] = drop_open_connection(@)]
    /\ UNCHANGED notLife

\* execute_query finds the entry and takes open.conn.clone(): a reference to the
\* pool, not to the OpenConnection.
LifeQueryStart ==
    /\ life.table # 0
    /\ life.opens[life.table].queries < MaxRunning
    /\ life' = [life EXCEPT !.opens[life.table].queries = @ + 1]
    /\ UNCHANGED notLife

\* execute_query returns: its reference to the pool goes away.
LifeQueryEnd(i) ==
    /\ i \in 1 .. Len(life.opens)
    /\ life.opens[i].queries > 0
    /\ life' = [life EXCEPT !.opens[i].queries = @ - 1]
    /\ UNCHANGED notLife

\* test_connection: build_tunnel(&saved).await?
LifeTestTunnel(outcome) ==
    /\ life.tpc \in {"idle", "returned"}
    /\ life' = CASE outcome = "error" ->
                      [life EXCEPT !.tpc = "returned", !.ttun = "none", !.probe = "none"]
                 [] outcome = "tunnel" ->
                      [life EXCEPT !.tpc = "probe", !.ttun = "up", !.probe = "running"]
                 [] OTHER ->
                      [life EXCEPT !.tpc = "probe", !.ttun = "none", !.probe = "running"]
    /\ UNCHANGED notLife

\* DatabaseConnection::test_connection(&conn_config).await answers and
\* test_connection returns: `_tunnel` goes out of scope at the end of the function.
LifeTestProbe(ok) ==
    /\ life.tpc = "probe"
    /\ life' = [life EXCEPT !.tpc = "returned", !.ttun = drop_tunnel(@),
                            !.probe = IF ok THEN "ok" ELSE "failed"]
    /\ UNCHANGED notLife

InitLife ==
    /\ ParkApp /\ ParkHosts /\ ParkSql /\ ParkExec /\ ParkTunnel /\ ParkUpdate /\ ParkMore
    /\ life = NoLife

NextLife ==
    \/ LifeOpenCall
    \/ LifeOpenCheck
    \/ \E outcome \in {"tunnel", "no ssh", "error"} : LifeOpenTunnel(outcome)
    \/ \E ok \in BOOLEAN : LifeOpenConnect(ok)
    \/ LifeClose
    \/ LifeQueryStart
    \/ \E i \in 1 .. MaxOpens : LifeQueryEnd(i)
    \/ \E outcome \in {"tunnel", "no ssh", "error"} : LifeTestTunnel(outcome)
    \/ \E ok \in BOOLEAN : LifeTestProbe(ok)

SpecLife == InitLife /\ [][NextLife]_vars

-----------------------------------------------------------------------------
(* SpecSecret: EncryptedPassword (src-tauri/src/security/encryption.rs) and      *)
(* SavedConnection::get_password (src-tauri/src/config.rs).  AES-256-GCM is      *)
(* modelled by what it guarantees: a ciphertext opens only under the key that    *)
(* sealed it, and only if it was not altered.  Keys are numbered in the order    *)
(* the random generator produced them.                                           *)

MaxKeys == 2           \* keys the random generator produces in one behaviour

Callers == {1, 2}      \* threads calling into encrypt / decrypt / get_password

Plaintexts == {"", "hunter2"}

\* A stored ciphertext that was altered (or is not base64 at all).
Corrupt == [key |-> 0, plain |-> "", intact |-> FALSE]

\* sealing_key.seal_in_place_append_tag(..) and the base64 encoding of the result
seal(key, plaintext) == [key |-> key, plain |-> plaintext, intact |-> TRUE]

\* base64 decoding, opening_key.open_in_place(..) and String::from_utf8
open_in_place(key, blob) ==
    IF blob.intact /\ blob.key = key
    THEN [kind |-> "Ok", plain |-> blob.plain]
    ELSE [kind |-> "Err", plain |-> ""]

\* SavedConnection::get_password for a Postgres connection: `password` is
\* Some(enc) and `decrypted` is what enc.decrypt() returned; password_plaintext is
\* << >> (None) or << p >>.
get_password(decrypted, password_plaintext) ==
    IF decrypted.kind = "Ok" THEN decrypted.plain
    ELSE IF password_plaintext = << >> THEN "" ELSE password_plaintext[1]

notSecret == << tabs, connections, tabsLock, connsLock, configLock, nextToken, cancelled,
                issued, pc, loc, known_hosts, chk, sql, sqlOut, ex, tun, upd, life,
                edit, cell, env, lk >>

IdleCaller ==
    [ pc     |-> "idle",      \* idle / exists / read / generate / truncated / write / use / returned
      op     |-> "none",      \* encrypt / decrypt / get_password
      plain  |-> "",          \* encrypt: the plaintext
      blob   |-> Corrupt,     \* decrypt, get_password: the stored EncryptedPassword
      password_plaintext |-> << >>,   \* get_password: the saved plaintext field
      key    |-> 0,           \* the key get_or_create_key returned
      result |-> [kind |-> "none", plain |-> ""] ]

\* No key file yet, nothing encrypted.
NoSecret ==
    [ file    |-> [exists |-> FALSE, key |-> 0],   \* the .key file and the key in it
                                                   \* (0: created, nothing written yet)
      nextKey |-> 1,          \* the next key rng.fill produces
      blobs   |-> {},         \* what encrypt has returned so far
      t       |-> [c \in Callers |-> IdleCaller] ]

\* A call of encrypt(plaintext), of decrypt() on a stored value, or of get_password
\* on a saved connection whose password is such a value; each starts with
\* get_or_create_key (decrypt after its base64 decoding, which a corrupt value may
\* already fail).
SecCall(c) ==
    /\ sec.t[c].pc \in {"idle", "returned"}
    /\ \/ \E plain \in Plaintexts :
             sec' = [sec EXCEPT !.t[c] =
                       [IdleCaller EXCEPT !.pc = "exists", !.op = "encrypt", !.plain = plain]]
       \/ \E blob \in sec.blobs \cup {Corrupt} :
             sec' = [sec EXCEPT !.t[c] =
                       [IdleCaller EXCEPT !.pc = "exists", !.op = "decrypt", !.blob = blob]]
       \/ \E blob \in sec.blobs \cup {Corrupt},
             pp \in { << >> } \cup { << p >> : p \in Plaintexts } :
             sec' = [sec EXCEPT !.t[c] =
                       [IdleCaller EXCEPT !.pc = "exists", !.op = "get_password",
                                          !.blob = blob, !.password_plaintext = pp]]
    /\ UNCHANGED notSecret

\* get_or_create_key: `if key_path.exists()`
SecExists(c) ==
    /\ sec.t[c].pc = "exists"
    /\ sec' = [sec EXCEPT !.t[c].pc = IF sec.file.exists THEN "read" ELSE "generate"]
    /\ UNCHANGED notSecret

\* get_or_create_key: std::fs::read and `if key.len() == 32 { return Ok(key) }`
SecRead(c) ==
    /\ sec.t[c].pc = "read"
    /\ sec' = IF sec.file.key # 0
              THEN [sec EXCEPT !.t[c].pc = "use", !.t[c].key = sec.file.key]
              ELSE [sec EXCEPT !.t[c].pc = "generate"]
    /\ UNCHANGED notSecret

\* get_or_create_key: rng.fill(&mut key)
SecGenerate(c) ==
    /\ sec.t[c].pc = "generate"
    /\ sec.nextKey <= MaxKeys
    /\ sec' = [sec EXCEPT !.t[c].pc = "truncated", !.t[c].key = sec.nextKey,
                          !.nextKey = @ + 1]
    /\ UNCHANGED notSecret

\* get_or_create_key: std::fs::write creates or truncates the file ...
SecTruncate(c) ==
    /\ sec.t[c].pc = "truncated"
    /\ sec' = [sec EXCEPT !.t[c].pc = "write", !.file = [exists |-> TRUE, key |-> 0]]
    /\ UNCHANGED notSecret

\* ... and then writes the 32 bytes.
SecWrite(c) ==
    /\ sec.t[c].pc = "write"
    /\ sec' = [sec EXCEPT !.t[c].pc = "use", !.file = [exists |-> TRUE, key |-> sec.t[c].key]]
    /\ UNCHANGED notSecret

\* The rest of encrypt / decrypt / get_password with the key in hand.
SecUse(c) ==
    /\ sec.t[c].pc = "use"
    /\ LET me == sec.t[c]
           opened == open_in_place(me.key, me.blob) IN
       sec' = CASE me.op = "encrypt" ->
                     [sec EXCEPT !.t[c].pc = "returned",
                                 !.t[c].result = [kind |-> "Ok", plain |-> ""],
                                 !.t[c].blob = seal(me.key, me.plain),
                                 !.blobs = @ \cup { seal(me.key, me.plain) }]
                [] me.op = "decrypt" ->
                     [sec EXCEPT !.t[c].pc = "returned", !.t[c].result = opened]
                [] OTHER ->
                     [sec EXCEPT !.t[c].pc = "returned",
                                 !.t[c].result =
                                    [kind |-> "password",
                                     plain |-> get_password(opened, me.password_plaintext)]]
    /\ UNCHANGED notSecret

InitSecret ==
    /\ ParkApp /\ ParkHosts /\ ParkSql /\ ParkExec /\ ParkTunnel /\ ParkUpdate /\ ParkLife
    /\ edit = << >> /\ cell = << >> /\ env = << >> /\ lk = << >>
    /\ sec = NoSecret

NextSecret ==
    \/ \E c \in Callers : SecCall(c)
    \/ \E c \in Callers : SecExists(c)
    \/ \E c \in Callers : SecRead(c)
    \/ \E c \in Callers : SecGenerate(c)
    \/ \E c \in Callers : SecTruncate(c)
    \/ \E c \in Callers : SecWrite(c)
    \/ \E c \in Callers : SecUse(c)

SpecSecret == InitSecret /\ [][NextSecret]_vars

-----------------------------------------------------------------------------
(* SpecEdit: extract_source_table / check_query_editable                         *)
(* (dendron-core/src/query.rs).  The input is what Parser::parse_sql returned    *)
(* under the first dialect that parsed the text: an error under all three, or    *)
(* the statements; of a statement the model keeps the fields the checks read.    *)

MaxStatements == 2     \* statements in the parsed text
MaxFrom == 2           \* entries of select.from
MaxIdents == 4         \* parts of the dotted table name

IdentParts == << "a", "b", "c", "d", "e" >>

\* name.0 of a table name with n parts
ObjectName(n) == SubSeq(IdentParts, 1, n)

ParsedQueries ==
    [ stmt     : {"Query"},
      with     : BOOLEAN,                        \* query.with.is_some()
      body     : {"Select", "SetOperation"},     \* query.body
      distinct : BOOLEAN,                        \* select.distinct.is_some()
      group_by : {"none", "exprs", "all"},       \* select.group_by
      having   : BOOLEAN,                        \* select.having.is_some()
      from     : 0 .. MaxFrom,                   \* select.from.len()
      joins    : BOOLEAN,                        \* !select.from[0].joins.is_empty()
      relation : {"Table", "TableFunction", "Derived"},   \* select.from[0].relation
      idents   : 0 .. MaxIdents ]                \* name.0.len()

\* A statement that is not a query: the checks read none of its fields.
NotAQuery ==
    [ stmt |-> "Insert", with |-> FALSE, body |-> "Select", distinct |-> FALSE,
      group_by |-> "none", having |-> FALSE, from |-> 0, joins |-> FALSE,
      relation |-> "Table", idents |-> 0 ]

\* What parse_sql gave: parsed or not, how many statements, and the first of them.
EditInputs ==
    [ parsed : BOOLEAN, count : 0 .. MaxStatements, first : ParsedQueries \cup {NotAQuery} ]

\* Option<String>: << >> is None.
not_editable(reason) ==
    [editable |-> FALSE, schema |-> << >>, table |-> << >>, reason |-> << reason >>]

\* A match on idents.len() that takes the first part as the schema.
schema_and_table_first(idents) ==
    CASE Len(idents) = 1 -> [schema |-> << >>, table |-> << idents[1] >>]
      [] Len(idents) >= 2 -> [schema |-> << idents[1] >>, table |-> << idents[Len(idents)] >>]
      [] OTHER -> [schema |-> << >>, table |-> << >>]

\* match idents.len() { 1 => .., 2 => .., n if n >= 3 => .., _ => return not editable }
\* (the last arm is the record with no table)
schema_and_table(idents) ==
    CASE Len(idents) = 1 -> [schema |-> << >>, table |-> << idents[1] >>]
      [] Len(idents) = 2 -> [schema |-> << idents[1] >>, table |-> << idents[2] >>]
      [] Len(idents) >= 3 -> [schema |-> << idents[Len(idents) - 1] >>,
                              table |-> << idents[Len(idents)] >>]
      [] OTHER -> [schema |-> << >>, table |-> << >>]

check_query_editable(q) ==
    IF q.with THEN not_editable("Query uses CTEs")
    ELSE IF q.body # "Select" THEN not_editable("Query uses set operations")
    ELSE IF q.distinct THEN not_editable("Query uses DISTINCT")
    ELSE IF q.group_by = "exprs" THEN not_editable("Query uses GROUP BY")
    ELSE IF q.group_by = "all" THEN not_editable("Query uses GROUP BY ALL")
    ELSE IF q.having THEN not_editable("Query uses HAVING")
    ELSE IF q.from # 1 THEN not_editable("Query must have exactly one table in FROM")
    ELSE IF q.joins THEN not_editable("Query uses JOINs")
    ELSE IF q.relation = "TableFunction"
    THEN not_editable("FROM clause is a table-valued function")
    ELSE IF q.relation # "Table" THEN not_editable("FROM clause is not a simple table")
    ELSE LET st == schema_and_table(ObjectName(q.idents)) IN
         IF st.table = << >> THEN not_editable("Could not parse table name")
         ELSE [editable |-> TRUE, schema |-> st.schema, table |-> st.table,
               reason |-> << >>]

extract_source_table(input) ==
    IF ~input.parsed THEN not_editable("Could not parse SQL")
    ELSE IF input.count # 1 THEN not_editable("Multiple statements")
    ELSE IF input.first.stmt # "Query" THEN not_editable("Not a SELECT query")
    ELSE check_query_editable(input.first)

NoEditableInfo ==
    [editable |-> FALSE, schema |-> << >>, table |-> << >>, reason |-> << >>]

\* The call of extract_source_table on the text.
ExtractSourceTable ==
    /\ ~edit.done
    /\ edit' = [edit EXCEPT !.done = TRUE, !.out = extract_source_table(edit.input)]
    /\ UNCHANGED << tabs, connections, tabsLock, connsLock, configLock, nextToken,
                    cancelled, issued, pc, loc, known_hosts, chk, sql, sqlOut, ex, tun,
                    upd, life, sec, cell, env, lk >>

InitEdit ==
    /\ ParkApp /\ ParkHosts /\ ParkSql /\ ParkExec /\ ParkTunnel /\ ParkUpdate /\ ParkLife
    /\ sec = << >> /\ cell = << >> /\ env = << >> /\ lk = << >>
    /\ \E input \in EditInputs : edit = [input |-> input, done |-> FALSE, out |-> NoEditableInfo]

NextEdit ==
    \/ ExtractSourceTable

SpecEdit == InitEdit /\ [][NextEdit]_vars

-----------------------------------------------------------------------------
(***************************************************************************)
(* Decoding of one result cell (execute_query, db/postgres.rs)             *)
(***************************************************************************)
\* Declared type names of a column: for Postgres some that have an arm of their
\* own in the match, built-in ones that have none, and a custom enum; for SQLite
\* BLOB and the others.
TypeNames(backend) ==
    IF backend = "Postgres"
    THEN {"JSON", "BYTEA", "TIMETZ", "NUMERIC", "INET", "TEXT", "INT8", "MOOD"}
    ELSE {"BLOB", "TEXT", "INTEGER", "REAL"}

\* The type names the match names: their arm holds the one decoder of the type.
has_arm(backend, type_name) ==
    IF backend = "Postgres"
    THEN type_name \in {"JSON", "BYTEA", "TIMETZ", "NUMERIC", "INET"}
    ELSE type_name = "BLOB"

\* The attempts of the `_` arm, in the order of the or_else chain.
generic_attempts(backend) ==
    IF backend = "Postgres"
    THEN << "String", "i64", "i32", "f64", "bool", "unchecked String" >>
    ELSE << "String", "i64", "f64" >>

Attempts == {"specific", "String", "i64", "i32", "f64", "bool", "unchecked String"}

\* type_name.to_lowercase()
type_name_to_lowercase(type_name) ==
    CASE type_name = "JSON" -> "json"
      [] type_name = "BYTEA" -> "bytea"
      [] type_name = "TIMETZ" -> "timetz"
      [] type_name = "NUMERIC" -> "numeric"
      [] type_name = "INET" -> "inet"
      [] type_name = "TEXT" -> "text"
      [] type_name = "INT8" -> "int8"
      [] type_name = "MOOD" -> "mood"
      [] type_name = "BLOB" -> "blob"
      [] type_name = "INTEGER" -> "integer"
      [] type_name = "REAL" -> "real"

None == [ some |-> FALSE, by |-> "none", text |-> << >> ]
Some(by, text) == [ some |-> TRUE, by |-> by, text |-> text ]

\* The or_else chain from position i on: the first attempt that decodes the value.
RECURSIVE or_else(_, _, _)
or_else(chain, i, decodable) ==
    IF i > Len(chain) THEN None
    ELSE IF chain[i] \in decodable THEN Some(chain[i], << "value as ", chain[i] >>)
    ELSE or_else(chain, i + 1, decodable)

\* The closure given to and_then: NULL first, then the match on the type name.
\* An arm of a named type holds one try_get and nothing after it.
decode(backend, type_name, is_null, decodable) ==
    IF is_null THEN Some("NULL", << "NULL" >>)
    ELSE IF has_arm(backend, type_name)
    THEN IF "specific" \in decodable
         THEN Some("specific", << "value as ", type_name >>)
         ELSE None
    ELSE or_else(generic_attempts(backend), 1, decodable)

\* decoded.unwrap_or_else(|| format!("<{}>", type_name.to_lowercase()))
decode_cell(backend, type_name, is_null, decodable) ==
    LET decoded == decode(backend, type_name, is_null, decodable)
    IN IF decoded.some THEN decoded
       ELSE Some("placeholder", << "<", type_name_to_lowercase(type_name), ">" >>)

\* The cells a row can hold: the backend, the declared type, whether the value is
\* NULL, and the attempts that would decode the value.  A checked try_get of
\* String, i64, i32, f64 or bool refuses a Postgres column of a type the match
\* names (the types are not compatible); the unchecked one reads the bytes, as
\* it does for '1e400'::json, which serde_json refuses.
Cells ==
    { c \in [ backend : Backends, type_name : TypeNames("Postgres") \cup TypeNames("Sqlite"),
              is_null : BOOLEAN, decodable : SUBSET Attempts ] :
        /\ c.type_name \in TypeNames(c.backend)
        /\ (c.backend = "Postgres" /\ has_arm(c.backend, c.type_name))
              => c.decodable \subseteq {"specific", "unchecked String"} }

\* One iteration of the map over the columns of a row.
DecodeCell ==
    /\ cell.pc = "row"
    /\ cell' = [ cell EXCEPT !.pc = "decoded",
                 !.out = decode_cell(cell.value.backend, cell.value.type_name,
                                     cell.value.is_null, cell.value.decodable) ]
    /\ UNCHANGED << tabs, connections, tabsLock, connsLock, configLock, nextToken,
                    cancelled, issued, pc, loc, known_hosts, chk, sql, sqlOut, ex, tun,
                    upd, life, sec, edit, env, lk >>

InitCell ==
    /\ ParkApp /\ ParkHosts /\ ParkSql /\ ParkExec /\ ParkTunnel /\ ParkUpdate /\ ParkLife
    /\ sec = << >> /\ edit = << >> /\ env = << >> /\ lk = << >>
    /\ \E value \in Cells : cell = [ pc |-> "row", value |-> value, out |-> None ]

NextCell ==
    \/ DecodeCell

SpecCell == InitCell /\ [][NextCell]_vars

-----------------------------------------------------------------------------
(* SpecOpen: open_connection called by several tasks at once, close_connection *)

NextOpen ==
    \/ \E p \in Procs, n \in Names : OcCheck(p, n)
    \/ \E p \in Procs : OcConfig(p)
    \/ \E p \in Procs, ok \in BOOLEAN : OcConnected(p, ok)
    \/ \E p \in Procs : Return(p)
    \/ \E n \in Names : CloseConnection(n)

SpecOpen == Init /\ [][NextOpen]_vars

-----------------------------------------------------------------------------
(***************************************************************************)
(* SpecLocks: the three Mutexes of AppState, one step per lock().await and *)
(* per guard dropped (src-tauri/src/commands/queries.rs, connections.rs)   *)
(***************************************************************************)
LockTasks == {1, 2, 3}     \* commands running at once

LockCommands ==
    { "execute_query", "cancel_query", "check_query_safety", "add_to_history",
      "get_editable_info", "open_connection", "close_connection" }

lock(m) == [ op |-> "lock", mutex |-> m ]       \* state.<m>.lock().await
unlock(m) == [ op |-> "unlock", mutex |-> m ]   \* the guard goes out of scope
try == [ op |-> "try", mutex |-> "none" ]       \* `?`: go on, or return the Err
await == [ op |-> "await", mutex |-> "none" ]   \* a backend future is awaited

\* A get_editable_info that takes the connections lock before the tabs lock.
lock_steps_connections_first(cmd) ==
    CASE cmd = "execute_query" ->
            << lock("tabs"), try, lock("connections"), try, unlock("connections"),
               unlock("tabs"), await, lock("tabs"), unlock("tabs") >>
      [] cmd = "get_editable_info" ->
            << lock("connections"), try, lock("tabs"), try, unlock("tabs"),
               unlock("connections"), await >>
      [] OTHER -> << lock("tabs"), unlock("tabs") >>

\* The lock().await calls, `?` returns, guard drops and backend awaits of a command,
\* in program order.  Guards are dropped in reverse order of their declaration.
lock_steps(cmd) ==
    CASE cmd = "execute_query" ->
            << lock("tabs"), try, lock("connections"), try, unlock("connections"),
               unlock("tabs"), await, lock("tabs"), unlock("tabs") >>
      [] cmd = "cancel_query" ->
            << lock("tabs"), unlock("tabs") >>
      [] cmd = "check_query_safety" ->
            << lock("tabs"), try, unlock("tabs"), lock("connections"),
               unlock("connections") >>
      [] cmd = "add_to_history" ->
            << lock("config"), unlock("config") >>
      [] cmd = "get_editable_info" ->
            << lock("tabs"), try, lock("connections"), try, unlock("connections"),
               unlock("tabs"), await >>
      [] cmd = "open_connection" ->
            << lock("connections"), try, unlock("connections"), lock("config"), try,
               unlock("config"), await, try, lock("connections"), unlock("connections") >>
      [] cmd = "close_connection" ->
            << lock("connections"), unlock("connections") >>

\* Tasks 1 and 2 run any command; task 3 runs the commands that take one lock.
CommandsOf(p) ==
    IF p = 3 THEN {"cancel_query", "close_connection", "add_to_history"}
    ELSE LockCommands

NoCommand == [ cmd |-> "none", at |-> 0 ]

notLocks == << tabs, connections, nextToken, cancelled, issued, pc, loc, known_hosts,
               chk, sql, sqlOut, ex, tun, upd, life, sec, edit, cell, env >>

holder(m) ==
    CASE m = "tabs" -> tabsLock
      [] m = "connections" -> connsLock
      [] m = "config" -> configLock

\* The step task p is at: the next thing its command does.
step(p) ==
    IF lk[p].cmd # "none" /\ lk[p].at <= Len(lock_steps(lk[p].cmd))
    THEN lock_steps(lk[p].cmd)[lk[p].at]
    ELSE [ op |-> "none", mutex |-> "none" ]

\* The frontend invokes a command.
LkInvoke(p, cmd) ==
    /\ lk[p] = NoCommand
    /\ lk' = [lk EXCEPT ![p] = [ cmd |-> cmd, at |-> 1 ]]
    /\ UNCHANGED << tabsLock, connsLock, configLock >>
    /\ UNCHANGED notLocks

\* lock().await returns the guard: the Mutex was free.
LkAcquire(p) ==
    /\ step(p).op = "lock"
    /\ holder(step(p).mutex) = Unlocked
    /\ tabsLock' = IF step(p).mutex = "tabs" THEN p ELSE tabsLock
    /\ connsLock' = IF step(p).mutex = "connections" THEN p ELSE connsLock
    /\ configLock' = IF step(p).mutex = "config" THEN p ELSE configLock
    /\ lk' = [lk EXCEPT ![p].at = @ + 1]
    /\ UNCHANGED notLocks

\* The guard of a Mutex goes out of scope.
LkRelease(p) ==
    /\ step(p).op = "unlock"
    /\ tabsLock' = IF step(p).mutex = "tabs" THEN drop_guard(p) ELSE tabsLock
    /\ connsLock' = IF step(p).mutex = "connections" THEN drop_guard(p) ELSE connsLock
    /\ configLock' = IF step(p).mutex = "config" THEN drop_guard(p) ELSE configLock
    /\ lk' = [lk EXCEPT ![p].at = @ + 1]
    /\ UNCHANGED notLocks

\* A `?` (or an early `return`): on Ok the command goes on; on Err it returns and
\* every guard it holds is dropped.
LkTry(p, ok) ==
    /\ step(p).op = "try"
    /\ IF ok
       THEN /\ lk' = [lk EXCEPT ![p].at = @ + 1]
            /\ UNCHANGED << tabsLock, connsLock, configLock >>
       ELSE /\ lk' = [lk EXCEPT ![p] = NoCommand]
            /\ tabsLock' = IF tabsLock = p THEN drop_guard(p) ELSE tabsLock
            /\ connsLock' = IF connsLock = p THEN drop_guard(p) ELSE connsLock
            /\ configLock' = IF configLock = p THEN drop_guard(p) ELSE configLock
    /\ UNCHANGED notLocks

\* The backend future the command awaits completes.
LkAwait(p) ==
    /\ step(p).op = "await"
    /\ lk' = [lk EXCEPT ![p].at = @ + 1]
    /\ UNCHANGED << tabsLock, connsLock, configLock >>
    /\ UNCHANGED notLocks

\* The command returns.
LkReturn(p) ==
    /\ lk[p].cmd # "none"
    /\ lk[p].at > Len(lock_steps(lk[p].cmd))
    /\ lk' = [lk EXCEPT ![p] = NoCommand]
    /\ UNCHANGED << tabsLock, connsLock, configLock >>
    /\ UNCHANGED notLocks

InitLocks ==
    /\ ParkApp /\ ParkHosts /\ ParkSql /\ ParkExec /\ ParkTunnel /\ ParkUpdate /\ ParkLife
    /\ sec = << >> /\ edit = << >> /\ cell = << >> /\ env = << >>
    /\ lk = [p \in LockTasks |-> NoCommand]

NextLocks ==
    \/ \E p \in LockTasks : \E cmd \in CommandsOf(p) : LkInvoke(p, cmd)
    \/ \E p \in LockTasks : LkAcquire(p)
    \/ \E p \in LockTasks : LkRelease(p)
    \/ \E p \in LockTasks, ok \in BOOLEAN : LkTry(p, ok)
    \/ \E p \in LockTasks : LkAwait(p)
    \/ \E p \in LockTasks : LkReturn(p)

SpecLocks == InitLocks /\ [][NextLocks]_vars

\* tokio's Mutex hands the lock to its waiters in the order they asked, so a task
\* that waits for a lock that is released again and again gets it (strong
\* fairness of LkAcquire); a task that holds a guard and awaits nothing is polled
\* to the end of its block (weak fairness of the steps that need no lock).
FairLocks ==
    /\ SpecLocks
    /\ \A p \in LockTasks : SF_vars(LkAcquire(p))
    /\ \A p \in LockTasks : WF_vars(LkRelease(p))
    /\ \A p \in LockTasks : WF_vars(\E ok \in BOOLEAN : LkTry(p, ok))

-----------------------------------------------------------------------------
(***************************************************************************)
(* SpecEnv: resolve_env (dendron-core/src/team_config.rs).  A string is    *)
(* the sequence of its characters.                                         *)
(***************************************************************************)
MaxInputLen == 4      \* length of the string given to resolve_env
MaxResultLen == 8     \* the loop is followed while `result` is at most this long

EnvChars == {"$", "{", "}", "A", "x"}

\* The values the variable A may have in the process environment; every other
\* variable is unset.
EnvValues ==
    { << >>, << "x" >>, << "$", "{", "A", "}" >>, << "x", "$", "{", "A", "}" >> }

Environments == { [ name \in { << "A" >> } |-> value ] : value \in EnvValues }

\* env::var(var_name).unwrap_or_default()
env_var(environment, var_name) ==
    IF var_name \in DOMAIN environment THEN environment[var_name] ELSE << >>

first_index(S) == CHOOSE i \in S : \A j \in S : i <= j

\* result.find("${"): Some(index of the first occurrence), 0 for None.
find_open(result) ==
    LET at == { i \in 1 .. Len(result) - 1 : result[i] = "$" /\ result[i + 1] = "{" }
    IN IF at = {} THEN 0 ELSE first_index(at)

\* start + result[start..].find('}'): the first '}' at or after start, 0 for None.
find_close(result, start) ==
    LET at == { i \in start .. Len(result) : result[i] = "}" }
    IN IF at = {} THEN 0 ELSE first_index(at)

\* The body of the while loop for one occurrence:
\* format!("{}{}{}", &result[..start], var_value, &result[end + 1..])
replace(result, start, end, environment) ==
    LET var_name == SubSeq(result, start + 2, end - 1)
        var_value == env_var(environment, var_name)
    IN SubSeq(result, 1, start - 1) \o var_value \o SubSeq(result, end + 1, Len(result))

\* The loop goes round once more: there is a "${" with a '}' after it.
loops(result) ==
    find_open(result) # 0 /\ find_close(result, find_open(result)) # 0

\* One iteration of `while let Some(start) = result.find("${")`.  `odd` is the parity of
\* the number of iterations made, so that an iteration that builds the same string
\* again is a step of its own.
ResolveReplace ==
    /\ env.pc = "loop"
    /\ loops(env.result)
    /\ Len(env.result) <= MaxResultLen
    /\ env' = [env EXCEPT !.result = replace(env.result, find_open(env.result),
                                             find_close(env.result, find_open(env.result)),
                                             env.environment),
                           !.odd = ~@]
    /\ UNCHANGED << tabs, connections, tabsLock, connsLock, configLock, nextToken,
                    cancelled, issued, pc, loc, known_hosts, chk, sql, sqlOut, ex, tun,
                    upd, life, sec, edit, cell, lk >>

\* find("${") is None, or there is no '}' after it (break): resolve_env returns.
ResolveReturn ==
    /\ env.pc = "loop"
    /\ ~loops(env.result)
    /\ env' = [env EXCEPT !.pc = "returned"]
    /\ UNCHANGED << tabs, connections, tabsLock, connsLock, configLock, nextToken,
                    cancelled, issued, pc, loc, known_hosts, chk, sql, sqlOut, ex, tun,
                    upd, life, sec, edit, cell, lk >>

InitEnv ==
    /\ ParkApp /\ ParkHosts /\ ParkSql /\ ParkExec /\ ParkTunnel /\ ParkUpdate /\ ParkLife
    /\ sec = << >> /\ edit = << >> /\ cell = << >> /\ lk = << >>
    /\ \E s \in SeqsUpTo(EnvChars, MaxInputLen), environment \in Environments :
          env = [ pc |-> "loop", input |-> s, result |-> s, environment |-> environment,
                  odd |-> FALSE ]

NextEnv ==
    \/ ResolveReplace
    \/ ResolveReturn

SpecEnv == InitEnv /\ [][NextEnv]_vars

\* resolve_env is sequential code: the loop keeps running until it returns.
FairEnv == SpecEnv /\ WF_vars(NextEnv)

-----------------------------------------------------------------------------
(* Properties of the tab's query lifecycle (Spec) *)

\* Generations that swap_connection produced: every generation up to the current
\* one was produced by start_query (and is in issued) or by swap_connection.
SwapGens(t) == (1 .. tabs[t].query_id) \ issued

\* A query task that has been given a generation and has not yet run finish_query.
InFlight(p) == pc[p] \in {"eq_await", "eq_finish"}

\* C1: on one tab, in every interleaving, finish_query(x) clears the cancel slot
\* if and only if x is the tab's current generation; a finish_query with an older
\* generation leaves the tab, and so the handle of the newer query, as it is.
C1_FinishClearsOnlyCurrent ==
    [][ \A p \in QProcs : EqFinish(p) =>
            LET t == loc[p].tab IN
            IF loc[p].query_id = tabs[t].query_id
            THEN tabs'[t].cancel_token = NoToken
            ELSE tabs'[t] = tabs[t] ]_vars

\* Query A (older generation) has run finish_query while query B (newer generation)
\* is still waiting, and B's handle is still in the slot.
C1_Witness ==
    \E a \in QProcs, b \in QProcs :
        /\ pc[a] = "done" /\ loc[a].query_id # 0
        /\ pc[b] = "eq_await" /\ loc[b].query_id > loc[a].query_id
        /\ tabs[loc[b].tab].query_id = loc[b].query_id
        /\ tabs[loc[b].tab].cancel_token = loc[b].token
        /\ loc[b].token # NoToken

C8_GenerationMonotonic ==
    [][ /\ \A t \in DOMAIN tabs : t \in DOMAIN tabs' /\ tabs'[t].query_id >= tabs[t].query_id
        /\ \A p \in QProcs : (EqResolve(p) /\ pc'[p] = "eq_await") =>
              LET t == loc[p].tab IN
              /\ tabs'[t].query_id = tabs[t].query_id + 1
              /\ loc'[p].query_id = tabs'[t].query_id
              /\ loc'[p].query_id \notin issued
              /\ \A q \in QProcs \ {p} : loc[q].query_id # loc'[p].query_id
              /\ loc'[p].token # NoToken
              /\ loc'[p].token \notin cancelled
              /\ \A q \in QProcs \ {p} : loc[q].token # loc'[p].token
              /\ tabs'[t].cancel_token = loc'[p].token
        /\ \A t \in TabIds, n \in Names : SwapConnection(t, n) =>
              tabs'[t].query_id = tabs[t].query_id + 1
        /\ \A p \in QProcs : EqFinish(p) =>
              tabs'[loc[p].tab].query_id = tabs[loc[p].tab].query_id
        /\ \A t \in TabIds : (CancelQuery(t) /\ t \in DOMAIN tabs) =>
              tabs'[t].query_id = tabs[t].query_id ]_vars

\* Two queries in flight with different generations, after a swap and a cancel.
C8_Witness ==
    \E a \in QProcs, b \in QProcs :
        /\ InFlight(a) /\ InFlight(b)
        /\ loc[a].query_id < loc[b].query_id
        /\ SwapGens(loc[a].tab) # {}
        /\ cancelled # {}

\* C9: a query whose handle cancel_query cancelled and took out of the slot while
\* its backend call was pending returns "Query was cancelled" and no result rows.
C9_CancelAlwaysWins ==
    \A p \in QProcs :
        (pc[p] = "eq_finish" /\ loc[p].cancelled_waiting) => loc[p].result = "Query was cancelled"

-----------------------------------------------------------------------------
(* Properties of the locks (SpecCmds) *)

AwaitingBackend(p) == pc[p] \in {"eq_await", "uc_await", "sc_await", "oc_connect"}

\* C7: a command that awaits a backend or network operation holds none of the three
\* locks; a lock is only ever held by a command that is inside its lookup block
\* (between taking the tabs lock and the connections lock), so a query or connect
\* that is under way leaves all three locks free for the other commands.
C7_NoLockAcrossAwait ==
    /\ \A p \in Procs : AwaitingBackend(p) =>
          tabsLock # p /\ connsLock # p /\ configLock # p
    /\ tabsLock # Unlocked => pc[tabsLock] \in {"eq_conns", "uc_conns"}
    /\ connsLock = Unlocked
    /\ configLock = Unlocked

\* While the query waits for the backend, another command holds the tabs lock.
C7_Witness ==
    \E p \in Procs, q \in Procs :
        /\ pc[p] = "eq_await" /\ loc[p].backend = "pending"
        /\ pc[q] = "uc_conns" /\ tabsLock = q

-----------------------------------------------------------------------------
(* Properties of the host-key check (SpecHosts) *)

\* The lines of a file that are entries for host string h: not blank, not a
\* comment, first field h.
EntriesOf(file, h) ==
    { i \in 1 .. Len(file) :
        LET line == trim(file[i]) IN
        /\ line # << >> /\ Head(line) # "#"
        /\ splitn(line)[1] = h }

\* The stored line for h: the first of its entries.
FirstEntryOf(file, h) ==
    trim(file[CHOOSE i \in EntriesOf(file, h) : \A j \in EntriesOf(file, h) : i <= j])

StoredLines(h) == EntriesOf(known_hosts, h)

StoredLine(h) == FirstEntryOf(known_hosts, h)

\* C2: a check decides on the file it reads.  No line for the host string: the line
\* 'host key-type base64-key' is appended and the key accepted.  The stored line has
\* the same key type and key: accepted, nothing written.  It has another key type
\* or key: SshHostKeyMismatch, nothing written.  No step removes or rewrites a line,
\* so a key that differs from the stored one is never accepted in its place and
\* never replaces it.
C2_TrustOnFirstUse ==
    [][ /\ \A c \in Checkers : ChkScan(c) =>
              LET h == chk[c].host_str
                  presented == format_line(h, chk[c].key_type, chk[c].key_b64)
              IN /\ known_hosts' = known_hosts
                 /\ StoredLines(h) = {} => chk'[c].pc = "append"
                 /\ (StoredLines(h) # {} /\ StoredLine(h) = presented) =>
                        chk'[c].pc = "done" /\ chk'[c].result = "Ok(true)"
                 /\ (StoredLines(h) # {} /\ StoredLine(h) # presented) =>
                        chk'[c].pc = "done" /\ chk'[c].result = "SshHostKeyMismatch"
        /\ \A c \in Checkers : ChkAppend(c) =>
              /\ known_hosts' = Append(known_hosts,
                     format_line(chk[c].host_str, chk[c].key_type, chk[c].key_b64))
              /\ chk'[c].result = "Ok(true)"
        /\ \A h \in HostStrs : StoredLines(h) # {} =>
              /\ StoredLines(h) \subseteq EntriesOf(known_hosts', h)
              /\ FirstEntryOf(known_hosts', h) = StoredLine(h) ]_vars

\* A host was stored by a first check, and a later check that presented another key
\* for it has failed with SshHostKeyMismatch.
C2_Witness ==
    \E c \in Checkers :
        /\ chk[c].pc = "done" /\ chk[c].result = "SshHostKeyMismatch"
        /\ chk[c].host_str = <<"b", ":", "2">>
        /\ StoredLines(chk[c].host_str) # {}
        /\ StoredLine(chk[c].host_str) #
              format_line(chk[c].host_str, chk[c].key_type, chk[c].key_b64)

\* C10: the known_hosts file holds at most one line for each host:port string.
C10_OneLinePerHost ==
    \A h \in HostStrs : Cardinality(StoredLines(h)) <= 1

-----------------------------------------------------------------------------
(* Properties of the classifier and of the statement sent (SpecSql) *)

\* C3: most_dangerous_type returns Drop for every batch that contains a DROP
\* statement, whatever its position and whatever else the batch contains.
C3_DropAlwaysWins ==
    (sqlOut.op = "most_dangerous_type"
        /\ \E i \in 1 .. Len(sql.batch) : sql.batch[i].first_word = "DROP")
    => sqlOut.query_type = "Drop"

\* C4 as claimed: the statement is wrapped exactly when it is classified Select and
\* has_top_level_order_by reports no top-level ORDER BY.
C4_WrapIffNoOrderBy ==
    sqlOut.op = "execute_query" =>
        (sqlOut.effective_sql.wrapped <=>
            (analyze_query(sqlOut.sql) = "Select" /\ ~has_top_level_order_by(sqlOut.sql)))

\* C4, amended: the statement (without its trailing semicolon) is wrapped as
\* SELECT * FROM (<stmt>) q LIMIT <cap+1> OFFSET <offset> exactly when it is
\* classified Select, with or without a top-level ORDER BY; every other statement
\* is sent unwrapped.  The answer of has_top_level_order_by is only handed on to the
\* backend call.
C4_WrapIffSelect ==
    sqlOut.op = "execute_query" =>
        /\ sqlOut.sql = [sql EXCEPT !.trailing_semicolon = FALSE]
        /\ sqlOut.effective_sql.inner = sqlOut.sql
        /\ sqlOut.effective_sql.wrapped <=> (analyze_query(sqlOut.sql) = "Select")
        /\ sqlOut.effective_sql.wrapped =>
              /\ sqlOut.effective_sql.limit = DEFAULT_ROW_LIMIT + 1
              /\ sqlOut.effective_sql.offset = sqlOut.offset
        /\ sqlOut.has_order_by =
              (analyze_query(sqlOut.sql) = "Select" => has_top_level_order_by(sqlOut.sql))

\* A SELECT with a top-level ORDER BY has been wrapped, and at a non-zero offset.
C4_Witness ==
    /\ sqlOut.op = "execute_query"
    /\ sqlOut.is_select /\ sqlOut.has_order_by
    /\ Len(sqlOut.sql.batch) = 1 /\ sqlOut.sql.batch[1].order_by
    /\ sqlOut.effective_sql.wrapped
    /\ sqlOut.effective_sql.offset = 1000

-----------------------------------------------------------------------------
(* Properties of the row cap (SpecExec) *)

Min(a, b) == IF a < b THEN a ELSE b

\* C5: for a backend result of n rows and cap c = DEFAULT_ROW_LIMIT, at most c + 1
\* rows are pulled from the stream; the result has min(n, c) rows, row_count is
\* their number, truncated holds exactly when n > c; every row has as many cells
\* as there are column names and column type names.
C5_RowCap ==
    /\ ex.pulled <= DEFAULT_ROW_LIMIT + 1
    /\ (ex.pc = "done" /\ ex.result.ok) =>
          /\ Len(ex.result.rows) = Min(ex.n, DEFAULT_ROW_LIMIT)
          /\ ex.result.row_count = Len(ex.result.rows)
          /\ ex.result.truncated <=> (ex.n > DEFAULT_ROW_LIMIT)
          /\ Len(ex.result.columns) = Len(ex.result.column_types)
          /\ \A r \in 1 .. Len(ex.result.rows) :
                Len(ex.result.rows[r]) = Len(ex.result.columns)

\* The backend had cap + 1 rows: cap rows returned, truncated.
C5_Witness ==
    /\ ex.pc = "done" /\ ex.result.ok
    /\ ex.n = DEFAULT_ROW_LIMIT + 1
    /\ ex.result.truncated
    /\ Len(ex.result.rows) = DEFAULT_ROW_LIMIT
    /\ Len(ex.result.columns) = 2

-----------------------------------------------------------------------------
(* Properties of the tunnel (SpecTunnel) *)

\* The tunnel's state as seen from outside
TunnelState(t) ==
    IF t.loop = "stopped" THEN "Closed"
    ELSE IF t.loop = "running" THEN "Forwarding"
    ELSE IF t.pc = "returned" THEN "Failed"
    ELSE IF t.key_accepted THEN "Authenticating"
    ELSE "Disconnected"

TunnelMoves ==
    { <<"Disconnected", "Authenticating">>, <<"Authenticating", "Forwarding">>,
      <<"Forwarding", "Closed">>, <<"Disconnected", "Failed">>,
      <<"Authenticating", "Failed">> }

\* C11: the tunnel only moves Disconnected -> Authenticating -> Forwarding -> Closed
\* (or, from the first two, to a failed establish).  The listener and the accept
\* loop exist only after the host key was accepted and authentication succeeded; a
\* failed establish returns an error and leaves no listener, no task and no
\* SshTunnel; a stopped accept loop stays stopped and accepts nothing.
C11_TunnelForwardOnly ==
    [][ /\ TunnelState(tun') # TunnelState(tun) =>
              << TunnelState(tun), TunnelState(tun') >> \in TunnelMoves
        /\ (tun'.listener \/ tun'.loop # "none") => (tun'.key_accepted /\ tun'.authenticated)
        /\ (tun'.pc = "returned" /\ tun'.result # "Ok") =>
              /\ tun'.result \in {"SshConnectionFailed", "SshAuthFailed", "SshTunnelFailed"}
              /\ ~tun'.listener /\ tun'.loop = "none" /\ ~tun'.held
              /\ tun'.streams = << >>
        /\ tun.loop = "stopped" =>
              /\ tun'.loop = "stopped" /\ ~tun'.listener
              /\ Len(tun'.streams) = Len(tun.streams) ]_vars

\* The tunnel went through all four states: it forwarded a connection and was closed.
C11_Witness ==
    /\ TunnelState(tun) = "Closed"
    /\ tun.key_accepted /\ tun.authenticated
    /\ Len(tun.streams) >= 1

\* C12: from the moment the shutdown token is cancelled the accept loop accepts no
\* further local connection.
C12_NoAcceptAfterCancel ==
    [][ tun.shutdown => Len(tun'.streams) = Len(tun.streams) ]_vars

\* C13: a forward task that fails or ends changes nothing but its own stream: the
\* accept loop, the listener, the waiting connections and every other stream stay
\* as they are, and a loop with a waiting connection can still accept it.  Dropping
\* the tunnel and the end of the accept loop leave every stream as it is.
C13_StreamsIndependent ==
    [][ /\ \A i \in 1 .. MaxLocalConns, ok \in BOOLEAN :
              (StreamOpen(i, ok) \/ StreamEnd(i, ok)) =>
                  /\ tun'.loop = tun.loop /\ tun'.listener = tun.listener
                  /\ tun'.backlog = tun.backlog /\ tun'.shutdown = tun.shutdown
                  /\ \A j \in DOMAIN tun.streams : j # i => tun'.streams[j] = tun.streams[j]
                  /\ (tun'.loop = "running" /\ tun'.backlog > 0) =>
                        "accept" \in loop_select(tun'.shutdown, tun'.backlog)
        /\ (TunDrop \/ LoopShutdown \/ LoopAcceptError) => tun'.streams = tun.streams ]_vars

\* One stream has failed, and after the tunnel was dropped and its accept loop
\* stopped another stream is still copying.
C13_Witness ==
    /\ tun.shutdown /\ tun.loop = "stopped"
    /\ Len(tun.streams) >= 2
    /\ tun.streams[1] = "failed"
    /\ tun.streams[2] = "copying"

-----------------------------------------------------------------------------
(* Properties of the severity order and of the safety check (SpecSql) *)

Severity ==
    << "Drop", "Truncate", "Delete", "Update", "Alter", "Insert", "Create", "Select", "Other" >>

SeverityRank(t) == CHOOSE i \in 1 .. Len(Severity) : Severity[i] = t

\* C14: for the list of types of a batch, most_dangerous_type returns the type of
\* highest severity in the list under Drop > Truncate > Delete > Update > Alter >
\* Insert > Create > Select > Other, wherever it stands; Other for the empty list.
C14_SeverityOrder ==
    sqlOut.op = "most_dangerous_type" =>
        IF sqlOut.types = << >>
        THEN sqlOut.query_type = "Other"
        ELSE /\ \E k \in 1 .. Len(sqlOut.types) : sqlOut.types[k] = sqlOut.query_type
             /\ \A k \in 1 .. Len(sqlOut.types) :
                   SeverityRank(sqlOut.query_type) <= SeverityRank(sqlOut.types[k])

\* The most severe type stands last in a list of three, behind less severe ones.
C14_Witness ==
    /\ sqlOut.op = "most_dangerous_type"
    /\ sqlOut.types = << "Select", "Insert", "Truncate" >>
    /\ sqlOut.query_type = "Truncate"

\* A statement of the text that is destructive
IsDestructiveStatement(stmt) ==
    stmt.first_word \in {"INSERT", "UPDATE", "DELETE", "DROP", "TRUNCATE", "ALTER"}

\* C15: for a tab that points at an open connection tagged prod, production or
\* sensitive, check_query_safety requires confirmation exactly when the batch
\* contains a destructive statement.
C15_DangerousNeedsConfirmation ==
    (sqlOut.op = "check_query_safety" /\ sqlOut.tab = "open" /\ is_dangerous(sqlOut.tags)) =>
        (sqlOut.check.requires_confirmation <=>
            \E i \in 1 .. Len(sql.batch) : IsDestructiveStatement(sql.batch[i]))

-----------------------------------------------------------------------------
(* Properties of update_cell (SpecUpdate) *)

\* The messages of the errors that update_cell makes itself.
OwnErrors ==
    { "No primary key columns provided", "Tab not found",
      "No active connection for this tab", "Connection is not open",
      "No rows were updated", "Expected 1 row affected" }

\* C16: the update_cell command returns Ok(n) only when n = 1.  With an empty
\* primary-key set it returns an error and no statement reaches the backend; when
\* the backend reports zero affected rows it returns the 'no rows were updated'
\* error; when the backend reports more than one it returns the 'expected 1 row'
\* error; when the backend rejects the statement it returns the backend's error,
\* which is none of its own.
C16_UpdateCellExactlyOne ==
    upd.pc = "returned" =>
        /\ upd.result.kind \in {"Ok", "Err"}
        /\ upd.result.kind = "Ok" =>
               upd.result.n = 1 /\ upd.reply.kind = "rows" /\ upd.reply.n = 1
        /\ upd.pk_columns = << >> =>
               /\ upd.result = Err("No primary key columns provided")
               /\ upd.executed = 0 /\ upd.sql = << >>
        /\ (upd.reply.kind = "rows" /\ upd.reply.n = 0) =>
               upd.result = Err("No rows were updated")
        /\ (upd.reply.kind = "rows" /\ upd.reply.n > 1) =>
               upd.result.kind = "Err" /\ upd.result.msg = "Expected 1 row affected"
        /\ upd.reply.kind = "error" =>
               upd.result = Err(upd.reply.e) /\ upd.reply.e \notin OwnErrors

\* The backend reported more than one affected row and update_cell has returned.
C16_Witness ==
    /\ upd.pc = "returned"
    /\ upd.reply.kind = "rows" /\ upd.reply.n > 1
    /\ upd.result.kind = "Err"

\* The statement as the database reads it: a double quote opens an identifier that
\* runs to the next double quote that is not doubled, and a doubled quote inside it
\* stands for one; `$` with its number, or the n-th `?`, is parameter n; every other
\* piece is a symbol.
Sym(s) == [kind |-> "sym", val |-> << s >>]
Ident(name) == [kind |-> "ident", val |-> name]
Param(numeral) == [kind |-> "param", val |-> << numeral >>]

RECURSIVE read_quoted(_, _, _)
read_quoted(text, i, acc) ==
    IF i > Len(text) THEN [name |-> acc, next |-> i]
    ELSE IF text[i] = "\""
    THEN IF i < Len(text) /\ text[i + 1] = "\""
         THEN read_quoted(text, i + 2, Append(acc, "\""))
         ELSE [name |-> acc, next |-> i + 1]
    ELSE read_quoted(text, i + 1, Append(acc, text[i]))

RECURSIVE lex(_, _, _)
lex(text, i, nparams) ==
    IF i > Len(text) THEN << >>
    ELSE IF text[i] = "\""
    THEN LET r == read_quoted(text, i + 1, << >>)
         IN << Ident(r.name) >> \o lex(text, r.next, nparams)
    ELSE IF text[i] = "$" /\ i < Len(text)
    THEN << Param(text[i + 1]) >> \o lex(text, i + 2, nparams)
    ELSE IF text[i] = "?"
    THEN << Param(itoa(nparams + 1)) >> \o lex(text, i + 1, nparams + 1)
    ELSE << Sym(text[i]) >> \o lex(text, i + 1, nparams)

\* What the statement has to read as: one SET clause for the column with parameter
\* 1, and one equality predicate per key column, in order, with parameters 2..k+1.
ExpectedTokens(column, pk_columns) ==
    << Sym("UPDATE "), Ident(<< "public" >>), Sym("."), Ident(<< "t" >>),
       Sym(" SET "), Ident(column), Sym(" = "), Param(itoa(1)), Sym(" WHERE ") >>
      \o join([i \in 1 .. Len(pk_columns) |->
                  << Ident(pk_columns[i].name), Sym(" = "), Param(itoa(i + 1)) >>],
              Sym(" AND "))

\* C17: for k >= 1 primary-key columns the statement handed to the pool reads, on
\* both backends, as UPDATE "schema"."table" SET "column" = <parameter 1> WHERE
\* "key 1" = <parameter 2> AND ... AND "key k" = <parameter k+1>, whatever
\* characters the identifiers contain; no piece of its text is a value; and the
\* bind list is the new value followed by the k key values in the order of their
\* predicates.
C17_ParameterizedUpdate ==
    upd.sql # << >> =>
        LET k == Len(upd.pk_columns) IN
        /\ k >= 1
        /\ lex(upd.sql, 1, 0) = ExpectedTokens(upd.column, upd.pk_columns)
        /\ Len(SelectSeq(upd.sql, LAMBDA piece : piece = " SET ")) = 1
        /\ Len(SelectSeq(upd.sql, LAMBDA piece : piece = " AND ")) >= k - 1
        /\ \A j \in 1 .. Len(upd.sql) : upd.sql[j] \notin Values
        /\ Len(upd.binds) = k + 1
        /\ upd.binds[1] = upd.new_value
        /\ \A i \in 1 .. k : upd.binds[i + 1] = << upd.pk_columns[i].value >>

\* A statement for a composite key on SQLite, one of whose key columns has a double
\* quote in its name, is waiting at the pool with a NULL new value.
C17_Witness ==
    /\ upd.pc = "execute"
    /\ upd.backend = "Sqlite"
    /\ Len(upd.pk_columns) = MaxPk
    /\ \E i \in 1 .. Len(upd.pk_columns) :
          \E j \in 1 .. Len(upd.pk_columns[i].name) : upd.pk_columns[i].name[j] = "\""
    /\ upd.new_value = << >>

-----------------------------------------------------------------------------
(* Properties of tunnel and pool ownership (SpecLife) *)

\* The pool of an OpenConnection is open while something holds a reference to it:
\* the value in the table, or a running query.
PoolHeld(open) == open.table \/ open.queries > 0

\* C18: the tunnel of test_connection is up while the probe runs and is not up any
\* more once test_connection has returned; and the tunnel of an opened connection is
\* never torn down while its pool is still held by the open-connections table or by
\* a query running on it.
C18_TunnelLivesWithPool ==
    /\ life.tpc = "probe" => life.ttun # "down"
    /\ life.tpc = "returned" => life.ttun # "up"
    /\ \A i \in 1 .. Len(life.opens) :
          PoolHeld(life.opens[i]) => life.opens[i].tunnel # "down"

\* C19: open_connection on a name that is in the open-connections table returns Ok
\* from its first block: it goes on to no tunnel and no pool, and the table holds
\* the same OpenConnection as before, so that a second call in sequence leaves the
\* state of the first.
C19_OpenIsIdempotent ==
    [][ (LifeOpenCheck /\ life.table # 0) =>
            life' = [life EXCEPT !.opc = "returned", !.ores = "Ok (already open)"] ]_vars

\* open_connection was called on the open name and has returned; one OpenConnection
\* was ever made and the table holds it.
C19_Witness ==
    /\ life.opc = "returned" /\ life.ores = "Ok (already open)"
    /\ Len(life.opens) = 1 /\ life.table = 1

-----------------------------------------------------------------------------
(* Properties of close_connection (SpecCmds) *)

\* The tab points at a name that is not in the open-connections table.
PointsAtClosed(t) ==
    /\ t \in DOMAIN tabs
    /\ tabs[t].connection_name # NoConn
    /\ tabs[t].connection_name \notin connections

\* The step of process p returns the 'not open' error, and p has awaited nothing
\* on the backend.
FailsNotOpen(p) ==
    /\ loc[p].backend = "none"
    /\ pc'[p] = "done"
    /\ loc'[p].result = "Connection is not open"

\* close_connection(n) removes n from the table and leaves the tabs as they are.
CloseRemovesEntry ==
    \A n \in Names : CloseConnection(n) =>
        connections' = connections \ {n} /\ tabs' = tabs

\* execute_query whose lookup finds the tab's connection closed fails, and the tab,
\* with its generation and its cancel slot, is as before; no token was made.
ExecuteQueryOnClosed ==
    \A p \in OneQuery :
        (EqResolve(p) /\ PointsAtClosed(loc[p].tab)) =>
            /\ FailsNotOpen(p)
            /\ tabs' = tabs /\ nextToken' = nextToken /\ issued' = issued

\* update_cell / get_editable_info whose lookup finds the tab's connection closed.
LookupOnClosed ==
    \A p \in AuxProcs :
        (UcResolve(p) /\ PointsAtClosed(loc[p].tab)) => FailsNotOpen(p)

-----------------------------------------------------------------------------
(* Properties of the stored passwords (SpecSecret) *)

\* C21: when the stored password of a saved connection cannot be decrypted,
\* get_password hands no password to the connection attempt (the failure is
\* returned instead): a password it returns is the decrypted one.
C21_DecryptFailureSurfaced ==
    \A c \in Callers :
        (sec.t[c].pc = "returned" /\ sec.t[c].op = "get_password") =>
            /\ sec.t[c].blob.intact
            /\ sec.t[c].blob.key = sec.t[c].key
            /\ sec.t[c].result.plain = sec.t[c].blob.plain

\* C22: every decrypt of a value that encrypt returned gives back the plaintext
\* that was encrypted, in every interleaving of the calls, the first ones included.
C22_RoundTrip ==
    \A c \in Callers :
        (sec.t[c].pc = "returned" /\ sec.t[c].op = "decrypt" /\ sec.t[c].blob \in sec.blobs) =>
            sec.t[c].result = [kind |-> "Ok", plain |-> sec.t[c].blob.plain]

-----------------------------------------------------------------------------
(* Properties of extract_source_table (SpecEdit) *)

\* The disqualifying conditions in the order of the claim, each with its reason;
\* `several` is the condition on the number of statements.
Disqualifiers(input, several) ==
    LET q == input.first IN
    << [applies |-> ~input.parsed,                    reason |-> "Could not parse SQL"],
       [applies |-> several,                          reason |-> "Multiple statements"],
       [applies |-> q.stmt # "Query",                 reason |-> "Not a SELECT query"],
       [applies |-> q.with,                           reason |-> "Query uses CTEs"],
       [applies |-> q.body = "SetOperation",          reason |-> "Query uses set operations"],
       [applies |-> q.distinct,                       reason |-> "Query uses DISTINCT"],
       [applies |-> q.group_by = "exprs",             reason |-> "Query uses GROUP BY"],
       [applies |-> q.group_by = "all",               reason |-> "Query uses GROUP BY ALL"],
       [applies |-> q.having,                         reason |-> "Query uses HAVING"],
       [applies |-> q.from # 1,
        reason |-> "Query must have exactly one table in FROM"],
       [applies |-> q.joins,                          reason |-> "Query uses JOINs"],
       [applies |-> q.relation = "TableFunction",
        reason |-> "FROM clause is a table-valued function"],
       [applies |-> q.relation = "Derived",
        reason |-> "FROM clause is not a simple table"],
       [applies |-> q.idents = 0,                     reason |-> "Could not parse table name"] >>

\* The answer the claim describes, for a given list of conditions.
Judged(input, out, conds) ==
    LET hit == { i \in 1 .. Len(conds) : conds[i].applies } IN
    IF hit # {}
    THEN LET i == CHOOSE i \in hit : \A j \in hit : i <= j
         IN out = [editable |-> FALSE, schema |-> << >>, table |-> << >>,
                   reason |-> << conds[i].reason >>]
    ELSE LET n == input.first.idents
             name == ObjectName(n) IN
         /\ out.editable /\ out.reason = << >>
         /\ out.table = << name[n] >>
         /\ out.schema = IF n = 1 THEN << >>
                         ELSE IF n = 2 THEN << name[1] >> ELSE << name[n - 1] >>

NamedTypes ==
    {"Select", "Insert", "Update", "Delete", "Drop", "Truncate", "Alter", "Create"}

\* analyze_query has answered for a text of one statement that a dialect parses:
\* the answer is classify_statement of that statement.
ClassifiedByParser ==
    /\ sqlOut.op = "analyze_query"
    /\ Len(sql.batch) = 1
    /\ \E i \in 1 .. Len(Dialects) : parse_sql(Dialects[i], sql).ok

\* C24: for every single statement that parses under one of the three dialects,
\* the type classify_statement gives the parsed statement and the type
\* analyze_query_fallback gives the same text are equal whenever either of them
\* is one of Select, Insert, Update, Delete, Drop, Truncate, Alter, Create.
C24_PathsAgree ==
    ClassifiedByParser =>
        LET by_parser == sqlOut.query_type
            by_words == analyze_query_fallback(sql)
        IN (by_parser \in NamedTypes \/ by_words \in NamedTypes) => by_parser = by_words

(***************************************************************************)
(* Properties of the cell decoding (SpecCell)                              *)
(***************************************************************************)
\* The attempts the code holds for a cell of this backend and type: the decoder
\* of the type when the match names it, and the generic ones.
AttemptsFor(value) ==
    (IF has_arm(value.backend, value.type_name) THEN {"specific"} ELSE {})
        \cup { generic_attempts(value.backend)[i] :
                 i \in 1 .. Len(generic_attempts(value.backend)) }

\* C25: decoding one cell always yields a string; a NULL yields 'NULL' before any
\* decoder is tried; for a value that is not NULL the decoder of the declared type
\* is tried first, the generic string, numeric and boolean attempts after its
\* failure, and the placeholder '<lowercased type name>' is emitted only when
\* every attempt has failed.
C25_DecodeOrder ==
    cell.pc = "decoded" =>
        LET value == cell.value
            out == cell.out
        IN /\ out.some /\ out.text # << >>
           /\ value.is_null => out.text = << "NULL" >>
           /\ (~value.is_null /\ has_arm(value.backend, value.type_name)
                 /\ "specific" \in value.decodable) => out.by = "specific"
           /\ (~value.is_null /\ out.by = "placeholder") =>
                  /\ out.text = << "<", type_name_to_lowercase(value.type_name), ">" >>
                  /\ AttemptsFor(value) \cap value.decodable = {}

(***************************************************************************)
(* Properties of cancel_query and the cancel slot (Spec)                   *)
(***************************************************************************)
\* The query of task p is in flight on tab t: start_query has returned and
\* finish_query has not been called yet.
RunningOn(p, t) == pc[p] \in {"eq_await", "eq_finish"} /\ loc[p].tab = t

\* C26: cancel_query(tab) cancels every query that is running on the tab, that
\* is every query between its start_query and its finish_query.
C26_CancelReachesAll ==
    [][\A t \in TabIds :
          CancelQuery(t) => \A p \in QProcs : RunningOn(p, t) => loc[p].token \in cancelled']_vars

\* C27: in every reachable state of a tab, a handle in the cancel slot is not
\* cancelled, is the handle start_query returned together with the tab's current
\* generation, and the query it was returned to has not called finish_query; so
\* the slot is empty whenever no query is in flight on the tab.
C27_SlotHoldsCurrentQuery ==
    \A t \in DOMAIN tabs :
        /\ tabs[t].cancel_token # NoToken =>
              /\ tabs[t].cancel_token \notin cancelled
              /\ \E p \in QProcs :
                    /\ RunningOn(p, t)
                    /\ loc[p].token = tabs[t].cancel_token
                    /\ loc[p].query_id = tabs[t].query_id
        /\ (\A p \in QProcs : ~RunningOn(p, t)) => tabs[t].cancel_token = NoToken

\* The slot holds the handle of the newest query while an older query of the tab
\* is still waiting and a handle has been cancelled before.
C27_Witness ==
    \E t \in DOMAIN tabs, a \in QProcs, b \in QProcs :
        /\ tabs[t].cancel_token # NoToken
        /\ cancelled # {}
        /\ pc[a] = "eq_await" /\ loc[a].tab = t /\ loc[a].token = tabs[t].cancel_token
        /\ pc[b] = "eq_await" /\ loc[b].tab = t /\ loc[b].query_id < loc[a].query_id

(***************************************************************************)
(* Properties of concurrent open_connection calls (SpecOpen)               *)
(***************************************************************************)
\* Task p is past the lookups of open_connection(n) and is building the tunnel
\* and the pool.
Establishing(p, n) == pc[p] = "oc_connect" /\ loc[p].name = n

\* C28: when open_connection(name) is called concurrently for one name, at most
\* one of the calls establishes a tunnel and pool, and an entry that has been
\* inserted under the name is never replaced by another call's entry.
C28_OneOpenPerName ==
    [][ /\ \A p \in Procs, q \in Procs, n \in Names :
              (Establishing(p, n)' /\ Establishing(q, n)') => p = q
        /\ \A p \in Procs : OcConnected(p, TRUE) => loc[p].name \notin connections ]_vars

(***************************************************************************)
(* Properties of the lock order (FairLocks)                                *)
(***************************************************************************)
Mutexes == {"tabs", "connections", "config"}

\* The locks task p holds.
held(p) == { m \in Mutexes : holder(m) = p }

\* Task p has asked for Mutex m and has not been given it yet.
Requesting(p, m) == step(p).op = "lock" /\ step(p).mutex = m

\* A task asks for the tabs lock or the config lock holding nothing, and for the
\* connections lock holding at most the tabs lock; the config lock is held alone.
LockOrder ==
    \A p \in LockTasks :
        /\ Requesting(p, "tabs") => held(p) = {}
        /\ Requesting(p, "config") => held(p) = {}
        /\ Requesting(p, "connections") => held(p) \subseteq {"tabs"}
        /\ "config" \in held(p) => held(p) = {"config"}

\* C29: the commands cannot deadlock on the shared locks: a command that holds two
\* locks took the tabs lock first and the connections lock second, the config lock
\* is never held together with another, and in every interleaving each lock
\* request is eventually granted.
C29_NoDeadlock ==
    /\ []LockOrder
    /\ \A p \in LockTasks, m \in Mutexes : Requesting(p, m) ~> (holder(m) = p)

\* A task holds the tabs lock and waits for the connections lock, which another
\* task holds, while a third waits for the tabs lock.
C29_Witness ==
    \E p \in LockTasks, q \in LockTasks, r \in LockTasks :
        /\ held(p) = {"tabs"} /\ Requesting(p, "connections")
        /\ held(q) = {"connections"}
        /\ Requesting(r, "tabs")

(***************************************************************************)
(* Properties of resolve_env (FairEnv)                                     *)
(***************************************************************************)
\* C30: resolve_env terminates for every input string and every environment:
\* after finitely many replacements the loop reaches a string without a complete
\* ${...} and returns, also when the value of a variable contains ${...} itself.
C30_ResolveEnvTerminates == <>(env.pc = "returned")

=============================================================================
